---- MODULE Spec2Model ----
(***************************************************************************)
(* A model of backend/server.py (NetSuite Excel add-in backend):           *)
(*   - the process-global balance cache, the four bulk refresh handlers    *)
(*     that fill it and batch_balance that reads it        (SpecCache)     *)
(*   - the prefix-sum walk of the bulk refreshes           (SpecWalk)      *)
(*   - get_subsidiaries_in_hierarchy                       (SpecHier)      *)
(*   - calculate_cta and its sub-query executor            (SpecCta)       *)
(*                                                                         *)
(* Money.  The handlers hold amounts in Python floats.  In the cache and   *)
(* walk part an amount is an integer number of mills (1/1000 currency      *)
(* unit), so that round(x, 2) and the 0.01 snap act on something.  In the  *)
(* CTA part an amount is a binary float with a MantBits-bit significand    *)
(* (round to nearest, ties to even), the scaled-down IEEE-754 double.      *)
(*                                                                         *)
(* Period names.  A period name such as "Feb 2025" is the pair             *)
(* <<year, month_idx>>; month_idx = -1 stands for a name whose first word  *)
(* is no month abbreviation ("Q1 2025").                                   *)
(*                                                                         *)
(* Cache keys.  f"{account}:{period}:{filters_hash}" is the triple         *)
(* <<account, period, filters_hash>>, and                                  *)
(* f"{subsidiary}:{department}:{location}:{class_id}" is the 4-tuple.      *)
(***************************************************************************)
EXTENDS Integers, Sequences, FiniteSets, TLC

VARIABLES
    \* ---- balance cache (server.py:40-42) and the clock
    balance_cache,            \* key -> amount, a partial function
    balance_cache_timestamp,  \* NoneTS or the clock value at the last stamp
    now,                      \* datetime.now(), in whole seconds
    response,                 \* the response of the last handler that ran
    calls,                    \* history: how many requests have been handled
    walk_in,                  \* history: the inputs of the refresh whose walk is examined
    request_in,               \* history: the inputs of the single request examined
    bs_queries,               \* history: the BS queries the batch_balance examined built
    pager,                    \* the locals of a run_paginated_suiteql call
    bb_req,                   \* the locals of a batch_balance request that runs in steps
    fy_req,                   \* the locals of a full-year refresh that runs in steps
    \* ---- Balance Sheet activity cache (server.py:51-56)
    bs_activity_cache,        \* activity key -> the month's activity
    bs_activity_cache_timestamp,
    bs_account_set,           \* the accounts seen in the last BS activity rows
    \* ---- fiscal years (server.py:46, 4851-4916)
    fiscal_year_cache,        \* cache key -> the record found for it
    fiscal_call,              \* the last call of get_fiscal_year_for_period
    fiscal_found,             \* history: the (period name, book) pairs a lookup found
    \* ---- subsidiary hierarchy (server.py:499-581)
    subsidiary_table,         \* the remote Subsidiary table: id -> [parent, iselimination]
    subsidiary_hierarchy_cache,
    hier_call,                \* the last call of get_subsidiaries_in_hierarchy
    \* ---- /cta (server.py:5388-5667)
    cta_pc,                   \* position of the /cta request
    q_pc,                     \* name -> position of that sub-query's future
    q_attempt,                \* name -> the loop variable attempt of query_with_retry
    q_log,                    \* history: name -> the remote calls and sleeps it made
    results,                  \* name -> value, the collector's dictionary
    query_errors,             \* names of the sub-queries that ended in an error
    overtaken,                \* history: a future completed before one submitted earlier
    rate_limits,              \* history: rate-limit answers given so far
    cta_response

cacheVars == <<balance_cache, balance_cache_timestamp, now, response, calls>>
stepVars  == <<bb_req, fy_req>>
fiscalVars == <<fiscal_year_cache, fiscal_call, fiscal_found>>
bsVars    == <<bs_activity_cache, bs_activity_cache_timestamp, bs_account_set>>
walkKept  == <<walk_in, request_in, bs_queries, pager, stepVars, fiscalVars>>
walkVars  == <<walkKept, bsVars>>
hierVars  == <<subsidiary_table, subsidiary_hierarchy_cache, hier_call>>
ctaVars   == <<cta_pc, q_pc, q_attempt, q_log, results, query_errors, overtaken,
               rate_limits, cta_response>>
vars == <<cacheVars, walkVars, hierVars, ctaVars>>

(***************************************************************************)
(* Bounds                                                                  *)
(***************************************************************************)
MaxNow == 300          \* the clock stops here
MaxCalls == 3          \* requests handled in one run of SpecCache
MantBits == 3          \* significant bits of a float in the /cta arithmetic

(***************************************************************************)
(* Program constants                                                       *)
(***************************************************************************)
BALANCE_CACHE_TTL == 300
NoneTS == -1           \* balance_cache_timestamp = None
max_workers == 3       \* ThreadPoolExecutor(max_workers=3) of calculate_cta
max_retries == 3       \* query_with_retry(name, sql, max_retries=3)

(***************************************************************************)
(* Small helpers                                                           *)
(***************************************************************************)
Abs(x) == IF x < 0 THEN -x ELSE x

\* d1 updated with every entry of d2: what a run of d1[k] = v assignments leaves
Merge(d1, d2) ==
    [k \in (DOMAIN d1) \cup (DOMAIN d2) |-> IF k \in DOMAIN d2 THEN d2[k] ELSE d1[k]]

EmptyDict == [k \in {} |-> 0]

(***************************************************************************)
(* The data the requests and the remote system range over                  *)
(***************************************************************************)
PLAccounts == {"4010"}             \* an Income account
BSAccounts == {"1000"}             \* a Bank account
Accounts   == PLAccounts \cup BSAccounts

\* month_order, cut to its first three entries (Jan, Feb, Mar)
month_order == <<0, 1, 2>>
Months      == {month_order[i] : i \in 1..Len(month_order)}
FiscalYears == {2025}
Period(y, m) == <<y, m>>
YearPeriods(y) == {Period(y, m) : m \in Months}
Periods     == UNION {YearPeriods(y) : y \in FiscalYears}
BadPeriod   == <<2025, -1>>        \* "Q1 2025": parts[0][:3] is no month

\* lookup_cache['subsidiaries'] once load_lookup_cache has run
lookup_subsidiaries == [n \in {"acme"} |-> "2"]
DigitStrings == {"1", "2", "3"}

(***************************************************************************)
(* convert_name_to_id (server.py:584-632), for the subsidiary dimension.   *)
(* A value is "" (absent), an all-digit id, or a name.  The string         *)
(* operations are given by their graph on the names used below.            *)
(***************************************************************************)
\* str(value).lower().strip()
lower_strip(value) ==
    CASE value = "Acme" -> "acme"
      [] value = "Acme (Consolidated)" -> "acme (consolidated)"
      [] value = "Typo Corp" -> "typo corp"
      [] value = "Typo Corp (Consolidated)" -> "typo corp (consolidated)"
      [] OTHER -> value

\* value_lower.replace(' (consolidated)', '') when value_lower ends with it
strip_consolidated(value_lower) ==
    CASE value_lower = "acme (consolidated)" -> "acme"
      [] value_lower = "typo corp (consolidated)" -> "typo corp"
      [] OTHER -> value_lower

\* a conversion that hands a name it cannot find on as the id
convert_or_keep(value) ==
    IF value = "" THEN ""
    ELSE IF value \in DigitStrings THEN value
    ELSE LET value_lower == strip_consolidated(lower_strip(value))
         IN  IF value_lower \in DOMAIN lookup_subsidiaries
             THEN lookup_subsidiaries[value_lower]
             ELSE value

convert_name_to_id(value) ==
    IF value = "" THEN ""
    ELSE IF value \in DigitStrings THEN value
    ELSE LET value_lower == strip_consolidated(lower_strip(value))
         IN  IF value_lower \in DOMAIN lookup_subsidiaries
             THEN lookup_subsidiaries[value_lower]
             ELSE ""

\* filters_hash = f"{subsidiary}:{department}:{location}:{class_id}"
filters_hash(subsidiary, department, location, class_id) ==
    <<subsidiary, department, location, class_id>>

\* cache_key = f"{account}:{period}:{filters_hash}"
cache_key(account, period, fh) == <<account, period, fh>>

\* a dict {(account, period): amount} written into the cache under fh
Keyed(balances, fh) ==
    [k \in {cache_key(ap[1], ap[2], fh) : ap \in DOMAIN balances} |->
        balances[<<k[1], k[2]>>]]

(***************************************************************************)
(* Amounts in mills                                                        *)
(***************************************************************************)
Cent == 10             \* 0.01 currency units

\* round(x, 2): to the nearest cent, a tie to the even cent
RoundCents(x) ==
    LET q == x \div Cent
        r == x % Cent              \* 0 .. Cent-1, x = q*Cent + r
    IN  IF 2 * r < Cent THEN q * Cent
        ELSE IF 2 * r > Cent THEN (q + 1) * Cent
        ELSE IF q % 2 = 0 THEN q * Cent ELSE (q + 1) * Cent

\* a running total that is kept as it is
keep_total(x) == x

\* if abs(cumulative) < 0.01: cumulative = 0
SnapEpsilon(x) == IF Abs(x) < Cent THEN 0 ELSE x

(***************************************************************************)
(* The chronological order of the requested periods                       *)
(* (batch_periods_refresh, server.py:2304-2328)                            *)
(***************************************************************************)
\* parsed_periods before the sort: the periods whose month parsed, in request order
RECURSIVE ParsePeriods(_)
ParsePeriods(periods) ==
    IF periods = <<>> THEN <<>>
    ELSE LET p == Head(periods)
         IN  (IF p[2] >= 0 THEN <<p>> ELSE <<>>) \o ParsePeriods(Tail(periods))

PeriodBefore(p, q) == p[1] < q[1] \/ (p[1] = q[1] /\ p[2] < q[2])

\* list.sort(key=(year, month_idx)): a stable insertion sort
RECURSIVE InsertSorted(_, _)
InsertSorted(p, sorted) ==
    IF sorted = <<>> THEN <<p>>
    ELSE IF PeriodBefore(p, Head(sorted)) THEN <<p>> \o sorted
    ELSE <<Head(sorted)>> \o InsertSorted(p, Tail(sorted))

RECURSIVE SortPeriods(_)
SortPeriods(ps) ==
    IF ps = <<>> THEN <<>>
    ELSE InsertSorted(ps[Len(ps)], SortPeriods(SubSeq(ps, 1, Len(ps) - 1)))

parsed_periods(periods) == SortPeriods(ParsePeriods(periods))

(***************************************************************************)
(* The prefix-sum walks                                                    *)
(***************************************************************************)
\* batch_periods_refresh, server.py:2627-2643: one account's walk.
\* activity_by_period: period -> activity; the result: period -> cumulative
RECURSIVE PeriodsWalkFrom(_, _, _, _, _)
PeriodsWalkFrom(parsed, i, activity_by_period, cumulative, out) ==
    IF i > Len(parsed) THEN out
    ELSE LET period_name == parsed[i]
             activity == IF period_name \in DOMAIN activity_by_period
                         THEN activity_by_period[period_name] ELSE 0
             c == SnapEpsilon(RoundCents(cumulative + activity))
         IN  PeriodsWalkFrom(parsed, i + 1, activity_by_period, c,
                             Merge(out, [k \in {period_name} |-> c]))

PeriodsWalk(parsed, activity_by_period, prior) ==
    PeriodsWalkFrom(parsed, 1, activity_by_period, prior, EmptyDict)

\* batch_full_year_refresh, server.py:2180-2201: one account's walk over month_order
RECURSIVE FullYearWalkFrom(_, _, _, _, _)
FullYearWalkFrom(fiscal_year, i, activity_by_period, cumulative, out) ==
    IF i > Len(month_order) THEN out
    ELSE LET period_name == Period(fiscal_year, month_order[i])
             activity == IF period_name \in DOMAIN activity_by_period
                         THEN activity_by_period[period_name] ELSE 0
             c == SnapEpsilon(cumulative + activity)
         IN  FullYearWalkFrom(fiscal_year, i + 1, activity_by_period, c,
                              Merge(out, [k \in {period_name} |-> c]))

FullYearWalk(fiscal_year, activity_by_period, prior) ==
    FullYearWalkFrom(fiscal_year, 1, activity_by_period, prior, EmptyDict)

\* the activity of one account: rows is a dict {(account, period): amount}
ActivityOf(rows, account) ==
    [p \in {ap[2] : ap \in {x \in DOMAIN rows : x[1] = account}} |-> rows[<<account, p>>]]

RowAccounts(rows) == {ap[1] : ap \in DOMAIN rows}

\* What a remote query gave: its rows, or a failure (run_paginated_suiteql raised,
\* query_netsuite returned an error dict)
Rows(rows) == [ok |-> TRUE, rows |-> rows]
Failed == [ok |-> FALSE, rows |-> EmptyDict]

\* prior_balances.get(account, 0); an error result leaves prior_balances empty
PriorOf(prior, account) ==
    IF ~prior.ok THEN 0
    ELSE IF account \in DOMAIN prior.rows THEN prior.rows[account] ELSE 0

(***************************************************************************)
(* Responses.  status is the HTTP status; balances is the 'balances' dict  *)
(* flattened to {(account, period): amount}; keys are the cache keys the   *)
(* request asked for (batch_balance) or wrote (a refresh); remote tells    *)
(* whether the handler queried the remote system.                           *)
(***************************************************************************)
NoResponse ==
    [op |-> "none", status |-> 0, from_cache |-> FALSE, remote |-> FALSE,
     at |-> 0, keys |-> {}, balances |-> EmptyDict]

ErrorResponse(op, status, remote) ==
    [op |-> op, status |-> status, from_cache |-> FALSE, remote |-> remote,
     at |-> now, keys |-> {}, balances |-> EmptyDict]

RefreshResponse(op, written, balances) ==
    [op |-> op, status |-> 200, from_cache |-> FALSE, remote |-> TRUE,
     at |-> now, keys |-> written, balances |-> balances]

RefreshOps == {"full_year_refresh", "periods_refresh", "full_year_refresh_bs",
               "bs_periods"}

\* a pivoted or nullable column: <<>> is None / absent, <<v>> a value
CellValue(cell) == IF cell = <<>> THEN 0 ELSE cell[1]

(***************************************************************************)
(* batch_full_year_refresh (server.py:1874-2258).                          *)
(*   pl     Failed (run_paginated_suiteql raised) or the pivoted rows      *)
(*          account -> [month -> cell]                                     *)
(*   bs     Failed or the activity rows {(account, period): amount}        *)
(*   prior  Failed or the prior-year rows account -> balance               *)
(***************************************************************************)
FullYearPL(fiscal_year, pl) ==
    [ap \in (DOMAIN pl) \X YearPeriods(fiscal_year) |-> CellValue(pl[ap[1]][ap[2][2]])]

FullYearBS(fiscal_year, bs, prior) ==
    [ap \in RowAccounts(bs) \X YearPeriods(fiscal_year) |->
        FullYearWalk(fiscal_year, ActivityOf(bs, ap[1]), PriorOf(prior, ap[1]))[ap[2]]]

\* activity_cache_key = f"activity:{account}:{period_name}:{filters_hash}"
activity_cache_key(account, period, fh) == <<"activity", account, period, fh>>

\* the BS activity rows {(account, period): amount} under their activity keys
ActivityKeyed(rows, fh) ==
    [k \in {activity_cache_key(ap[1], ap[2], fh) : ap \in DOMAIN rows} |->
        rows[<<k[2], k[3]>>]]

\* a handler that starts on the Balance Sheet part whatever the P&L query did
bs_part_always(skip_bs, pl) == ~skip_bs

\* the handler gets to the Balance Sheet part: it has returned before on a
\* P&L query error (server.py:1978-1980) and on skip_bs (server.py:2052-2068)
reaches_bs_part(skip_bs, pl) == pl.ok /\ ~skip_bs

\* "Clear BS activity cache" and the loop that fills it from the BS rows
full_year_bs_activity(skip_bs, pl, bs, fh) ==
    IF reaches_bs_part(skip_bs, pl)
    THEN /\ bs_activity_cache' = ActivityKeyed(bs.rows, fh)
         /\ bs_activity_cache_timestamp' = now
         /\ bs_account_set' = RowAccounts(bs.rows)
    ELSE UNCHANGED bsVars

batch_full_year_refresh(fiscal_year, sub_raw, skip_bs, pl, bs, prior) ==
    LET subsidiary == convert_name_to_id(sub_raw)
        fh         == filters_hash(subsidiary, "", "", "")
    IN  full_year_bs_activity(skip_bs, pl, bs, fh) /\
        IF ~pl.ok
        THEN /\ response' = ErrorResponse("full_year_refresh", 500, TRUE)
             /\ UNCHANGED <<balance_cache, balance_cache_timestamp>>
        ELSE LET pl_balances == FullYearPL(fiscal_year, pl.rows)
                 bs_balances == IF skip_bs \/ ~bs.ok THEN EmptyDict
                                ELSE FullYearBS(fiscal_year, bs.rows, prior)
                 balances    == Merge(pl_balances, bs_balances)
                 \* balance_cache = {} and then one assignment per balance
                 cache       == Merge(EmptyDict, Keyed(balances, fh))
             IN  /\ balance_cache' = cache
                 /\ balance_cache_timestamp' = now
                 /\ response' = RefreshResponse("full_year_refresh", DOMAIN cache, balances)

(***************************************************************************)
(* batch_periods_refresh (server.py:2261-2681).                            *)
(*   periods  the request's list                                           *)
(*   pl     Failed or the rows {(account, period): amount}                 *)
(*   bs     Failed or the activity rows {(account, period): amount}        *)
(*   prior  Failed or the prior rows account -> balance                    *)
(***************************************************************************)
Elems(seq) == {seq[i] : i \in 1..Len(seq)}

\* the P&L rows kept: period_name in requested_periods_set
PeriodsPL(periods, pl) ==
    [ap \in {x \in DOMAIN pl : x[2] \in Elems(periods)} |-> pl[ap]]

\* prior_balances: abs(bal) < 0.01 snapped to 0
PeriodsPriorOf(prior, account) == SnapEpsilon(PriorOf(prior, account))

PeriodsBS(periods, bs, prior) ==
    LET parsed == parsed_periods(periods)
    IN  [ap \in RowAccounts(bs) \X Elems(parsed) |->
            PeriodsWalk(parsed, ActivityOf(bs, ap[1]),
                        PeriodsPriorOf(prior, ap[1]))[ap[2]]]

batch_periods_refresh(periods, sub_raw, pl, bs, prior) ==
    LET subsidiary == convert_name_to_id(sub_raw)
        fh         == filters_hash(subsidiary, "", "", "")
    IN  IF periods = <<>> \/ parsed_periods(periods) = <<>>
        THEN /\ response' = ErrorResponse("periods_refresh", 400, FALSE)
             /\ UNCHANGED <<balance_cache, balance_cache_timestamp>>
        ELSE IF ~pl.ok
        THEN /\ response' = ErrorResponse("periods_refresh", 500, TRUE)
             /\ UNCHANGED <<balance_cache, balance_cache_timestamp>>
        ELSE IF ~bs.ok
        THEN \* the P&L rows are in the cache already when the BS query raises
             /\ balance_cache' = Merge(balance_cache, Keyed(PeriodsPL(periods, pl.rows), fh))
             /\ response' = ErrorResponse("periods_refresh", 500, TRUE)
             /\ UNCHANGED balance_cache_timestamp
        ELSE LET balances == Merge(PeriodsPL(periods, pl.rows),
                                   PeriodsBS(periods, bs.rows, prior))
                 written  == Keyed(balances, fh)
             IN  \* no balance_cache = {} and no balance_cache_timestamp = ... here
                 /\ balance_cache' = Merge(balance_cache, written)
                 /\ UNCHANGED balance_cache_timestamp
                 /\ response' = RefreshResponse("periods_refresh", DOMAIN written, balances)

(***************************************************************************)
(* batch_full_year_refresh_bs (server.py:2684-2807).                       *)
(*   by_month  month -> Failed or the rows account -> cell (balance)       *)
(***************************************************************************)
FullYearBsRows(fiscal_year, by_month) ==
    [ap \in {x \in BSAccounts \X YearPeriods(fiscal_year) :
                /\ by_month[x[2][2]].ok
                /\ x[1] \in DOMAIN by_month[x[2][2]].rows} |->
        CellValue(by_month[ap[2][2]].rows[ap[1]])]

batch_full_year_refresh_bs(fiscal_year, sub_raw, by_month) ==
    LET subsidiary == convert_name_to_id(sub_raw)
        fh         == filters_hash(subsidiary, "", "", "")
        balances   == FullYearBsRows(fiscal_year, by_month)
        written    == Keyed(balances, fh)
    IN  /\ balance_cache' = Merge(balance_cache, written)
        /\ balance_cache_timestamp' = now
        /\ response' = RefreshResponse("full_year_refresh_bs", DOMAIN written, balances)

(***************************************************************************)
(* batch_bs_periods (server.py:2810-2965).                                 *)
(*   rows  Failed or account -> [period -> cell], a bal_YYYY_MM column     *)
(*         for every requested period whose name parses                    *)
(***************************************************************************)
has_non_zero(row) == \E p \in DOMAIN row : Abs(CellValue(row[p])) >= Cent

BsPeriodsRows(rows) ==
    [ap \in {x \in (DOMAIN rows) \X Periods :
                x[2] \in DOMAIN rows[x[1]] /\ has_non_zero(rows[x[1]])} |->
        CellValue(rows[ap[1]][ap[2]])]

batch_bs_periods(periods, sub_raw, rows) ==
    LET subsidiary == convert_name_to_id(sub_raw)
        fh         == filters_hash(subsidiary, "", "", "")
    IN  IF periods = <<>> \/ ParsePeriods(periods) = <<>>
        THEN /\ response' = ErrorResponse("bs_periods", 400, FALSE)
             /\ UNCHANGED <<balance_cache, balance_cache_timestamp>>
        ELSE IF ~rows.ok
        THEN /\ response' = ErrorResponse("bs_periods", 500, TRUE)
             /\ UNCHANGED <<balance_cache, balance_cache_timestamp>>
        ELSE LET balances == BsPeriodsRows(rows.rows)
                 written  == Keyed(balances, fh)
             IN  /\ balance_cache' = Merge(balance_cache, written)
                 /\ balance_cache_timestamp' = now
                 /\ response' = RefreshResponse("bs_periods", DOMAIN written, balances)

(***************************************************************************)
(* batch_balance (server.py:2968-3290).                                    *)
(*   accounts, periods  the request's lists, as sets                       *)
(*   remote  what the recomputation gets from the remote system: the rows  *)
(*           {(account, period): amount} of its queries; Failed (no rows)  *)
(*           when every query came back as an error dict                   *)
(***************************************************************************)
\* balance_cache and balance_cache_timestamp and cache_age < BALANCE_CACHE_TTL
\* the same test with the age compared by <= (a cache of exactly TTL seconds served)
CacheFreshInclusive ==
    /\ balance_cache # EmptyDict
    /\ balance_cache_timestamp # NoneTS
    /\ now - balance_cache_timestamp <= BALANCE_CACHE_TTL

CacheFresh ==
    /\ balance_cache # EmptyDict
    /\ balance_cache_timestamp # NoneTS
    /\ now - balance_cache_timestamp < BALANCE_CACHE_TTL

RequestKeys(accounts, periods, fh) ==
    {cache_key(a, p, fh) : a \in accounts, p \in periods}

\* a loop that stops at the first key it finds (one key present is enough)
any_in_cache(accounts, periods, fh) ==
    \E account \in accounts : \E period \in periods :
        cache_key(account, period, fh) \in DOMAIN balance_cache

\* the loop that sets all_in_cache
all_in_cache(accounts, periods, fh) ==
    \A account \in accounts : \A period \in periods :
        cache_key(account, period, fh) \in DOMAIN balance_cache

\* result_balances[account][period] = balance_cache.get(cache_key, 0)
CacheBalances(accounts, periods, fh) ==
    [ap \in accounts \X periods |->
        IF cache_key(ap[1], ap[2], fh) \in DOMAIN balance_cache
        THEN balance_cache[cache_key(ap[1], ap[2], fh)] ELSE 0]

\* all_balances as the query rows left it, without the fill
rows_only(accounts, periods, remote) == remote

\* all_balances after "Fill in zeros for missing account/period combinations"
RecomputedBalances(accounts, periods, remote) ==
    [ap \in (DOMAIN remote) \cup (accounts \X periods) |->
        IF ap \in DOMAIN remote THEN remote[ap] ELSE 0]

batch_balance(accounts, periods, sub_raw, remote) ==
    LET subsidiary == convert_name_to_id(sub_raw)
        fh         == filters_hash(subsidiary, "", "", "")
        keys       == RequestKeys(accounts, periods, fh)
    IN  /\ UNCHANGED <<balance_cache, balance_cache_timestamp>>
        /\ IF accounts = {} \/ periods = {}
           THEN response' = ErrorResponse("batch_balance", 400, FALSE)
           ELSE IF CacheFresh /\ all_in_cache(accounts, periods, fh)
           THEN response' =
                    [op |-> "batch_balance", status |-> 200, from_cache |-> TRUE,
                     remote |-> FALSE, at |-> now, keys |-> keys,
                     balances |-> CacheBalances(accounts, periods, fh)]
           ELSE \* a query that fails returns an error dict and adds no row
                \* (remote.rows is empty then); the zero fill still runs
                response' =
                    [op |-> "batch_balance", status |-> 200, from_cache |-> FALSE,
                     remote |-> TRUE, at |-> now, keys |-> keys,
                     balances |-> RecomputedBalances(accounts, periods, remote.rows)]

(***************************************************************************)
(* The clock                                                               *)
(***************************************************************************)
TickSteps == {150}

Tick(d) ==
    /\ now + d <= MaxNow
    /\ now' = now + d
    /\ UNCHANGED <<balance_cache, balance_cache_timestamp, response, calls>>

(***************************************************************************)
(* get_subsidiaries_in_hierarchy (server.py:502-581).                      *)
(* subsidiary_table is the remote table of active subsidiaries,            *)
(* id -> [parent, iselimination]; a row's parent is NoParent when the      *)
(* column is null.  rows is the query result: the table's rows in the      *)
(* order the remote system returned them (the query has no ORDER BY).      *)
(***************************************************************************)
NoParent == ""

\* all_subs.keys(): the ids in row order
AllSubsKeys(rows) == [i \in 1..Len(rows) |-> rows[i].id]

\* children_map[parent_id]: the ids of the rows with that parent, in row order
RECURSIVE ChildrenOf(_, _)
ChildrenOf(rows, parent_id) ==
    IF rows = <<>> THEN <<>>
    ELSE (IF Head(rows).parent = parent_id /\ parent_id # NoParent
          THEN <<Head(rows).id>> ELSE <<>>) \o ChildrenOf(Tail(rows), parent_id)

InSeq(x, seq) == \E i \in 1..Len(seq) : seq[i] = x

\* a for loop that appends every child to hierarchy_ids and tests the list
\* only before it appends to to_process
RECURSIVE append_every_child(_, _, _)
append_every_child(children, hierarchy_ids, to_process) ==
    IF children = <<>> THEN <<hierarchy_ids, to_process>>
    ELSE append_every_child(Tail(children), Append(hierarchy_ids, Head(children)),
                            IF InSeq(Head(children), hierarchy_ids) THEN to_process
                            ELSE Append(to_process, Head(children)))

\* for child_id in children_map[current]: if child_id not in hierarchy_ids: append
\* to both lists.  The pair <<hierarchy_ids, to_process>> after the for loop.
RECURSIVE AppendChildren(_, _, _)
AppendChildren(children, hierarchy_ids, to_process) ==
    IF children = <<>> THEN <<hierarchy_ids, to_process>>
    ELSE IF InSeq(Head(children), hierarchy_ids)
         THEN AppendChildren(Tail(children), hierarchy_ids, to_process)
         ELSE AppendChildren(Tail(children), Append(hierarchy_ids, Head(children)),
                             Append(to_process, Head(children)))

\* while to_process: current = to_process.pop(0) ...
RECURSIVE WhileToProcess(_, _, _)
WhileToProcess(rows, hierarchy_ids, to_process) ==
    IF to_process = <<>> THEN hierarchy_ids
    ELSE LET current == Head(to_process)
             after   == AppendChildren(ChildrenOf(rows, current), hierarchy_ids,
                                       Tail(to_process))
         IN  WhileToProcess(rows, after[1], after[2])

\* a walk that stops after the target's own children (no grandchildren)
DirectChildrenOnly(rows, target_id) ==
    AppendChildren(ChildrenOf(rows, target_id), <<target_id>>, <<>>)[1]

\* the non-root branch
NonRootHierarchy(rows, target_id) ==
    WhileToProcess(rows, <<target_id>>, <<target_id>>)

\* a root branch that leaves the elimination subsidiaries out
RECURSIVE NonEliminationKeys(_)
NonEliminationKeys(rows) ==
    IF rows = <<>> THEN <<>>
    ELSE (IF Head(rows).iselimination THEN <<>> ELSE <<Head(rows).id>>)
         \o NonEliminationKeys(Tail(rows))

\* the root branch: hierarchy_ids = list(all_subs.keys())
RootHierarchy(rows) == AllSubsKeys(rows)

\* target_id in all_subs and all_subs[target_id]['parent'] is None
IsRootTarget(rows, target_id) ==
    \E i \in 1..Len(rows) : rows[i].id = target_id /\ rows[i].parent = NoParent

HierarchyIds(rows, target_id) ==
    IF IsRootTarget(rows, target_id) THEN RootHierarchy(rows)
    ELSE NonRootHierarchy(rows, target_id)

\* hier_call: the last call, its target, how it ended ("cached", "failed" when
\* the query gave no list or something raised, "computed"), the list it
\* returned, whether it queried the remote system, and the rows it got
NoHierCall ==
    [target |-> "", outcome |-> "none", result |-> <<>>, remote |-> FALSE, rows |-> <<>>]

\* a fallback that returns no subsidiary at all
no_subsidiary(target_id) == <<>>

\* return [target_id]: the fallback when the query gave no list or something raised
target_only(target_id) == <<target_id>>

\* a cache hit that hands back the target alone instead of the stored list
cached_target_only(target_id) == <<target_id>>

\* return subsidiary_hierarchy_cache[target_id]
cached_hierarchy(target_id) == subsidiary_hierarchy_cache[target_id]

\* ok: the remote query returned a list (rows); otherwise an error dict
get_subsidiaries_in_hierarchy(target_id, ok, rows) ==
    IF target_id \in DOMAIN subsidiary_hierarchy_cache
    THEN /\ hier_call' = [target |-> target_id, outcome |-> "cached",
                          result |-> cached_hierarchy(target_id),
                          remote |-> FALSE, rows |-> <<>>]
         /\ UNCHANGED subsidiary_hierarchy_cache
    ELSE IF ~ok
    THEN /\ hier_call' = [target |-> target_id, outcome |-> "failed",
                          result |-> target_only(target_id), remote |-> TRUE,
                          rows |-> <<>>]
         /\ UNCHANGED subsidiary_hierarchy_cache
    ELSE LET hierarchy_ids == HierarchyIds(rows, target_id)
         IN  /\ subsidiary_hierarchy_cache' =
                    Merge(subsidiary_hierarchy_cache, [t \in {target_id} |-> hierarchy_ids])
             /\ hier_call' = [target |-> target_id, outcome |-> "computed",
                              result |-> hierarchy_ids, remote |-> TRUE, rows |-> rows]

(***************************************************************************)
(* Float arithmetic of /cta.  A value is an integer with at most MantBits  *)
(* significant bits; every + and - rounds its exact result to the nearest  *)
(* such value, a tie to the even significand (IEEE-754, scaled down from   *)
(* the 53 bits of a Python float).                                         *)
(***************************************************************************)
RECURSIVE Pow2(_)
Pow2(n) == IF n = 0 THEN 1 ELSE 2 * Pow2(n - 1)

\* the spacing of the values around magnitude m
RECURSIVE Quantum(_)
Quantum(m) == IF m < Pow2(MantBits) THEN 1 ELSE 2 * Quantum(m \div 2)

RoundFloat(x) ==
    LET m  == Abs(x)
        q  == Quantum(m)
        lo == (m \div q) * q
        r  == m - lo
        nearest == IF 2 * r < q THEN lo
                   ELSE IF 2 * r > q THEN lo + q
                   ELSE IF (lo \div q) % 2 = 0 THEN lo ELSE lo + q
    IN  IF x < 0 THEN -nearest ELSE nearest

FAdd(a, b) == RoundFloat(a + b)
FSub(a, b) == RoundFloat(a - b)

(***************************************************************************)
(* calculate_cta (server.py:5388-5667): the six sub-queries, run by        *)
(* query_with_retry on a pool of max_workers threads, the collector loop   *)
(* over as_completed, and the plug.  query_with_retry_re of                *)
(* calculate_retained_earnings (server.py:5155-5167) is the same function. *)
(***************************************************************************)
\* queries, in the order of the dict (the order the futures are submitted)
CtaQueryOrder == <<"total_assets", "total_liabilities", "posted_equity",
                   "prior_pl", "posted_re", "net_income">>
CtaNames == Elems(CtaQueryOrder)

\* what query_netsuite returned (server.py:94-123): rows with result[0]['value'],
\* an empty list, or an error dict whose 'details' is the response text
RowsResult(v)  == [kind |-> "rows",  value |-> v, details |-> ""]
EmptyResult    == [kind |-> "empty", value |-> 0, details |-> ""]
ErrorResult(d) == [kind |-> "error", value |-> 0, details |-> d]

\* 'CONCURRENCY_LIMIT_EXCEEDED' in error_str or '429' in error_str
RateLimitSignals == {"CONCURRENCY_LIMIT_EXCEEDED", "429"}

\* a test that never sees the error dict (the error falls through to 0.0)
NoErrorSeen(result) == FALSE

\* isinstance(result, dict) and 'error' in result
IsError(result) == result.kind = "error"

\* a test that takes every error for a rate limit
RetryAnyError(result) == result.kind = "error"

IsRateLimited(result) ==
    result.kind = "error" /\ result.details \in RateLimitSignals

\* q_log entries
CallEvent(result) ==
    [ev |-> "call", secs |-> 0,
     out |-> IF IsError(result)
             THEN (IF result.details \in RateLimitSignals THEN "rate_limit" ELSE "error")
             ELSE result.kind]
WaitEvent(secs) == [ev |-> "wait", secs |-> secs, out |-> ""]

\* a pool that never counts a thread as busy
NoneInFlight == {}

\* the futures a pool thread is running
InFlight == {name \in CtaNames : q_pc[name] = "running"}

\* the future the executor starts next: the first one submitted and not started
NextPending(name) ==
    \E i \in 1..Len(CtaQueryOrder) :
        /\ CtaQueryOrder[i] = name
        /\ q_pc[name] = "pending"
        /\ \A j \in 1..(i - 1) : q_pc[CtaQueryOrder[j]] # "pending"

NoCtaResponse == [status |-> 0, value |-> 0, components |-> EmptyDict]

\* the request up to the submission of the futures.  found: whether
\* get_fiscal_year_for_period gave a period; target_sub, ok, rows: the call of
\* get_subsidiaries_in_hierarchy and what its remote query gives
cta_begin(found, target_sub, ok, rows) ==
    /\ cta_pc = "idle"
    /\ IF ~found
       THEN /\ cta_pc' = "done"
            /\ cta_response' = [NoCtaResponse EXCEPT !.status = 400]
            /\ UNCHANGED <<subsidiary_hierarchy_cache, hier_call>>
       ELSE /\ get_subsidiaries_in_hierarchy(target_sub, ok, rows)
            /\ cta_pc' = "running"
            /\ UNCHANGED cta_response
    /\ UNCHANGED <<q_pc, q_attempt, q_log, results, query_errors, overtaken>>

\* a pool thread takes the next future
worker_start(name) ==
    /\ cta_pc = "running"
    /\ NextPending(name)
    /\ Cardinality(InFlight) < max_workers
    /\ q_pc' = [q_pc EXCEPT ![name] = "running"]
    /\ UNCHANGED <<cta_pc, q_attempt, q_log, results, query_errors, overtaken, cta_response>>

\* a collector that files a value by its place in the completion order
key_by_position(name) == CtaQueryOrder[Cardinality(DOMAIN results) + 1]

\* name = futures[future]: the key that results[name] = value writes
key_by_name(name) == name

\* the as_completed loop body for one finished future
collect(name, result) ==
    /\ results' = Merge(results, [n \in {key_by_name(name)} |->
                      IF result.kind = "rows" THEN result.value ELSE 0])
    /\ query_errors' = IF IsError(result) THEN query_errors \cup {name} ELSE query_errors
    /\ overtaken' = (overtaken \/ \E i, j \in 1..Len(CtaQueryOrder) :
                        /\ j < i /\ CtaQueryOrder[i] = name
                        /\ CtaQueryOrder[j] \in DOMAIN q_pc
                        /\ q_pc[CtaQueryOrder[j]] # "done")

\* one pass of "for attempt in range(max_retries)" in query_with_retry: the
\* remote call gives result, then either the sleep and the next pass, or the
\* return; a return (also the one after the loop) ends in the collector
query_with_retry_pass(name, result) ==
    /\ cta_pc = "running"
    /\ q_pc[name] = "running"
    /\ IF IsRateLimited(result)
       THEN LET wait_time == (q_attempt[name] + 1) * 2
            IN  /\ q_log' = [q_log EXCEPT ![name] =
                                @ \o <<CallEvent(result), WaitEvent(wait_time)>>]
                /\ q_attempt' = [q_attempt EXCEPT ![name] = @ + 1]
                /\ IF q_attempt[name] + 1 < max_retries
                   THEN /\ UNCHANGED <<q_pc, results, query_errors, overtaken>>
                   ELSE /\ q_pc' = [q_pc EXCEPT ![name] = "done"]
                        /\ collect(name, result)
       ELSE /\ q_log' = [q_log EXCEPT ![name] = Append(@, CallEvent(result))]
            /\ q_pc' = [q_pc EXCEPT ![name] = "done"]
            /\ collect(name, result)
            /\ UNCHANGED q_attempt
    /\ UNCHANGED <<cta_pc, cta_response>>

ResultOf(name) == IF name \in DOMAIN results THEN results[name] ELSE 0

\* "Extract results" to the jsonify
cta_respond ==
    /\ cta_pc = "running"
    /\ \A name \in CtaNames : q_pc[name] = "done"
    /\ LET total_assets      == ResultOf("total_assets")
           total_liabilities == ResultOf("total_liabilities")
           posted_equity     == ResultOf("posted_equity")
           prior_pl          == ResultOf("prior_pl")
           posted_re         == ResultOf("posted_re")
           net_income        == ResultOf("net_income")
           total_equity      == FSub(total_assets, total_liabilities)
           retained_earnings == FAdd(prior_pl, posted_re)
           cta == FSub(FSub(FSub(total_equity, posted_equity), retained_earnings),
                       net_income)
       IN  cta_response' =
             [status |-> 200, value |-> cta,
              components |->
                [total_assets |-> total_assets, total_liabilities |-> total_liabilities,
                 total_equity |-> total_equity, posted_equity |-> posted_equity,
                 retained_earnings |-> retained_earnings, net_income |-> net_income]]
    /\ cta_pc' = "done"
    /\ UNCHANGED <<q_pc, q_attempt, q_log, results, query_errors, overtaken>>

(***************************************************************************)
(* Idle values of the parts a specification does not exercise              *)
(***************************************************************************)
CacheIdle ==
    /\ balance_cache = EmptyDict
    /\ balance_cache_timestamp = NoneTS
    /\ now = 0
    /\ response = NoResponse
    /\ calls = 0

\* no single request is examined
NoRequestIn == [handler |-> "none"]

\* no request runs in steps
NoSteps == [pc |-> "none"]
StepsIdle == bb_req = NoSteps /\ fy_req = NoSteps

\* no fiscal year has been looked up
NoFiscalCall == [period_name |-> <<>>, accountingbook |-> <<>>, outcome |-> "none",
                 result |-> <<>>, remote |-> FALSE]
FiscalIdle ==
    fiscal_year_cache = EmptyDict /\ fiscal_call = NoFiscalCall /\ fiscal_found = {}

\* bs_activity_cache = {}, bs_activity_cache_timestamp = None, bs_account_set = set()
BsActivityIdle ==
    /\ bs_activity_cache = EmptyDict
    /\ bs_activity_cache_timestamp = NoneTS
    /\ bs_account_set = {}

\* no call of run_paginated_suiteql is under way
NoPager == [pc |-> "none", all_rows |-> <<>>, offset |-> 0, page_num |-> 0,
            offsets |-> <<>>]

WalkIdle ==
    /\ walk_in = [periods |-> <<>>, activity |-> EmptyDict, prior |-> 0]
    /\ request_in = NoRequestIn
    /\ bs_queries = {}
    /\ pager = NoPager
    /\ StepsIdle
    /\ FiscalIdle
    /\ BsActivityIdle

HierIdle ==
    /\ subsidiary_table = EmptyDict
    /\ subsidiary_hierarchy_cache = EmptyDict
    /\ hier_call = NoHierCall

CtaIdle ==
    /\ cta_pc = "idle"
    /\ q_pc = [name \in CtaNames |-> "pending"]
    /\ q_attempt = [name \in CtaNames |-> 0]
    /\ q_log = [name \in CtaNames |-> <<>>]
    /\ results = EmptyDict
    /\ query_errors = {}
    /\ overtaken = FALSE
    /\ rate_limits = 0
    /\ cta_response = NoCtaResponse

(***************************************************************************)
(* SpecCache: the balance cache under any sequence of requests, one at a   *)
(* time (the Flask development server of __main__, server.py:5700)         *)
(***************************************************************************)
P0 == Period(2025, 0)
P1 == Period(2025, 1)

CacheSubRaw == {"", "acme"}
CachePeriodLists == {<<>>, <<P0>>, <<P1, P0>>, <<BadPeriod>>}
CacheAccountSets == {{}, PLAccounts, Accounts}
CachePeriodSets  == {{}, {P0}, {P0, P1}}

\* What the remote system answers in SpecCache: a failure, or the same ledger
\* every time (Income 1000 a month; Bank 7000 before the year, 2000 a month)
CachePLPivot == {Failed, Rows([a \in PLAccounts |-> [m \in Months |-> <<1000>>]])}
CacheRows(accts, amount) == {Failed, Rows([ap \in accts \X {P0, P1} |-> amount])}
CachePrior == {Rows([a \in BSAccounts |-> 7000])}
CacheBsMonths ==
    {[m \in Months |-> Rows([a \in BSAccounts |-> <<9000 + 2000 * m>>])],
     [m \in Months |-> IF m = 0 THEN Rows([a \in BSAccounts |-> <<9000>>]) ELSE Failed]}
CacheBsPivot(periods) ==
    {Failed,
     Rows([a \in BSAccounts |->
             [p \in Elems(ParsePeriods(periods)) |-> <<9000 + 2000 * p[2]>>]])}
\* batch_balance's own queries see a ledger that has moved on since (Income
\* 1500 a month, no Bank rows), so that a recomputed amount differs from
\* every cached one
RemoteAmounts == {1500}
CacheRemote(accounts, periods) ==
    {Failed} \cup
    {Rows([ap \in (accounts \cap PLAccounts) \X periods |-> v]) : v \in RemoteAmounts}

\* one more request handled
Handled == calls < MaxCalls /\ calls' = calls + 1

\* the answer put in for a query the handler does not get to
NotAsked == {Failed}

FullYearRefresh ==
    \E fy \in FiscalYears, sub_raw \in CacheSubRaw, skip_bs \in BOOLEAN,
       pl \in CachePLPivot, prior \in CachePrior :
      \E bs \in (IF pl.ok /\ ~skip_bs THEN CacheRows(BSAccounts, 2000) ELSE NotAsked) :
        /\ batch_full_year_refresh(fy, sub_raw, skip_bs, pl, bs, prior)
        /\ Handled
        /\ UNCHANGED <<now, walkKept, hierVars, ctaVars>>

PeriodsRefresh ==
    \E periods \in CachePeriodLists, sub_raw \in CacheSubRaw, prior \in CachePrior :
      \E pl \in (IF parsed_periods(periods) # <<>>
                 THEN CacheRows(PLAccounts, 1000) ELSE NotAsked) :
      \E bs \in (IF pl.ok THEN CacheRows(BSAccounts, 2000) ELSE NotAsked) :
        /\ batch_periods_refresh(periods, sub_raw, pl, bs, prior)
        /\ Handled
        /\ UNCHANGED <<now, walkVars, hierVars, ctaVars>>

FullYearRefreshBs ==
    \E fy \in FiscalYears, sub_raw \in CacheSubRaw, by_month \in CacheBsMonths :
        /\ batch_full_year_refresh_bs(fy, sub_raw, by_month)
        /\ Handled
        /\ UNCHANGED <<now, walkVars, hierVars, ctaVars>>

BsPeriods ==
    \E periods \in CachePeriodLists, sub_raw \in CacheSubRaw :
      \E rows \in (IF ParsePeriods(periods) # <<>>
                   THEN CacheBsPivot(periods) ELSE NotAsked) :
        /\ batch_bs_periods(periods, sub_raw, rows)
        /\ Handled
        /\ UNCHANGED <<now, walkVars, hierVars, ctaVars>>

BatchBalance ==
    \E accounts \in CacheAccountSets, periods \in CachePeriodSets,
       sub_raw \in CacheSubRaw :
      \E remote \in (IF accounts # {} /\ periods # {}
                     THEN CacheRemote(accounts, periods) ELSE NotAsked) :
        /\ batch_balance(accounts, periods, sub_raw, remote)
        /\ Handled
        /\ UNCHANGED <<now, walkVars, hierVars, ctaVars>>

ClockTick ==
    \E d \in TickSteps : Tick(d) /\ UNCHANGED <<walkVars, hierVars, ctaVars>>

InitCache == CacheIdle /\ WalkIdle /\ HierIdle /\ CtaIdle

NextCache ==
    \/ FullYearRefresh
    \/ PeriodsRefresh
    \/ FullYearRefreshBs
    \/ BsPeriods
    \/ BatchBalance
    \/ ClockTick

SpecCache == InitCache /\ [][NextCache]_vars

(***************************************************************************)
(* Properties of the balance cache (SpecCache)                             *)
(***************************************************************************)
\* the last request was a batch_balance that got past its parameter check
BalanceAnswered == response.op = "batch_balance" /\ response.status # 400

\* the (account, period) pair of a cache key
PairOf(key) == <<key[1], key[2]>>

\* C1: a batch_balance cache hit is all-or-nothing.  A response flagged
\* from_cache had every requested account x period key in balance_cache, made
\* no remote query and carries the cached amount for every pair; a request
\* with at least one key missing is not flagged from_cache, went to the remote
\* system, and none of its amounts is a cached one (each is what the remote
\* system answered, or the zero fill).
C1_CacheHitAllOrNothing ==
    BalanceAnswered =>
        /\ response.from_cache =>
              /\ response.keys \subseteq DOMAIN balance_cache
              /\ ~response.remote
              /\ \A k \in response.keys :
                    response.balances[PairOf(k)] = balance_cache[k]
        /\ ~(response.keys \subseteq DOMAIN balance_cache) =>
              /\ ~response.from_cache
              /\ response.remote
              /\ \A ap \in DOMAIN response.balances :
                    response.balances[ap] \in RemoteAmounts \cup {0}

\* C1 witness: a fresh cache holding some but not all of the requested keys,
\* and the request answered by recomputation
C1_PartialMissRecomputed ==
    /\ BalanceAnswered /\ response.status = 200
    /\ ~response.from_cache
    /\ balance_cache_timestamp # NoneTS
    /\ response.at - balance_cache_timestamp < BALANCE_CACHE_TTL
    /\ response.keys \cap DOMAIN balance_cache # {}
    /\ response.keys \ DOMAIN balance_cache # {}
    /\ \E ap \in DOMAIN response.balances : response.balances[ap] \in RemoteAmounts

\* C6: after a bulk refresh that ended in success, balance_cache holds exactly
\* the keys that refresh wrote (the refresh wholly replaced the cache).
C6_RefreshWhollyReplaces ==
    (response.op \in RefreshOps /\ response.status = 200) =>
        DOMAIN balance_cache = response.keys

\* C7: batch_balance never serves from the cache when the timestamp is unset,
\* the cache is empty, or its age is 300 seconds or more.
C7_NeverServedStale ==
    (BalanceAnswered /\ response.from_cache) =>
        /\ balance_cache # EmptyDict
        /\ balance_cache_timestamp # NoneTS
        /\ response.at - balance_cache_timestamp < BALANCE_CACHE_TTL

\* C7 witness: every requested key is cached and the cache is exactly
\* BALANCE_CACHE_TTL seconds old; the request is recomputed
C7_ExactlyTTLRecomputed ==
    /\ BalanceAnswered /\ response.status = 200
    /\ response.keys \subseteq DOMAIN balance_cache
    /\ balance_cache_timestamp # NoneTS
    /\ response.at - balance_cache_timestamp = BALANCE_CACHE_TTL
    /\ ~response.from_cache /\ response.remote

\* C8: a batch_balance call that follows a successful bulk refresh by less
\* than 300 seconds, under the refresh's filter set and asking only for pairs
\* the refresh wrote, is served from the cache.
C8_ServedAfterRefresh ==
    [][(/\ response.op \in RefreshOps /\ response.status = 200
        /\ response'.op = "batch_balance" /\ response'.status # 400
        /\ response'.keys \subseteq response.keys
        /\ response'.at - response.at < BALANCE_CACHE_TTL)
       => response'.from_cache]_vars

(***************************************************************************)
(* SpecWalk: the prefix-sum walks of batch_periods_refresh and             *)
(* batch_full_year_refresh, on one Balance-Sheet account, for every        *)
(* request list (any order, repeated names, gaps, unparseable names) and   *)
(* every ledger drawn from the sets below                                  *)
(***************************************************************************)
MaxWalkLen == 3        \* longest request list

WalkPeriodNames == YearPeriods(2025) \cup {BadPeriod}
WalkPeriodLists ==
    UNION {[1..n -> WalkPeriodNames] : n \in 1..MaxWalkLen}
\* mills: -1.004, 0.004 (below the epsilon), 1.005 (a rounding tie)
WalkAmounts == {-1004, 4, 1005}
WalkPriors  == {0, 7000}

\* the rows of the BS activity query: the periods from the earliest to the
\* latest requested one (ap.startdate >= start_date, ap.enddate <= end_date)
WalkRows(periods) ==
    LET parsed == parsed_periods(periods)
    IN  [ap \in {x \in BSAccounts \X DOMAIN walk_in.activity :
                    /\ parsed # <<>>
                    /\ ~PeriodBefore(x[2], parsed[1])
                    /\ ~PeriodBefore(parsed[Len(parsed)], x[2])} |->
            walk_in.activity[ap[2]]]

PeriodsRefreshWalk ==
    /\ batch_periods_refresh(walk_in.periods, "", Rows(EmptyDict),
                             Rows(WalkRows(walk_in.periods)),
                             Rows([a \in BSAccounts |-> walk_in.prior]))
    /\ Handled
    /\ UNCHANGED <<now, walkVars, hierVars, ctaVars>>

FullYearRefreshWalk ==
    /\ batch_full_year_refresh(2025, "", FALSE, Rows(EmptyDict),
                               Rows([ap \in BSAccounts \X DOMAIN walk_in.activity |->
                                        walk_in.activity[ap[2]]]),
                               Rows([a \in BSAccounts |-> walk_in.prior]))
    /\ Handled
    /\ UNCHANGED <<now, walkKept, hierVars, ctaVars>>

InitWalk ==
    /\ CacheIdle /\ HierIdle /\ CtaIdle
    /\ request_in = NoRequestIn
    /\ bs_queries = {}
    /\ pager = NoPager
    /\ StepsIdle
    /\ FiscalIdle
    /\ BsActivityIdle
    /\ walk_in \in [periods : WalkPeriodLists,
                    activity : [YearPeriods(2025) -> WalkAmounts],
                    prior : WalkPriors]

NextWalk == PeriodsRefreshWalk \/ FullYearRefreshWalk

SpecWalk == InitWalk /\ [][NextWalk]_vars

(***************************************************************************)
(* Properties of the walks (SpecWalk)                                      *)
(***************************************************************************)
\* a set of periods as the sequence P1..Pn in chronological order
RECURSIVE Chrono(_)
Chrono(S) ==
    IF S = {} THEN <<>>
    ELSE LET first == CHOOSE p \in S : \A q \in S : ~PeriodBefore(q, p)
         IN  <<first>> \o Chrono(S \ {first})

\* the requested periods P1..Pn of the refresh examined
RequestedChrono == Chrono(Elems(ParsePeriods(walk_in.periods)))

\* C2: for every Balance-Sheet account and the requested periods P1..Pn in
\* chronological order, whatever the order of the request, the emitted
\* cumulative(P1) is openingBalance + activity(P1) and cumulative(Pi) is
\* cumulative(Pi-1) + activity(Pi), each after the step's cent rounding and
\* epsilon snap; likewise along the months of the full-year walk (epsilon
\* snap only).
C2_PrefixSumWalk ==
    /\ (response.op = "periods_refresh" /\ response.status = 200) =>
          \A a \in BSAccounts : \A i \in 1..Len(RequestedChrono) :
            LET before == IF i = 1 THEN walk_in.prior
                          ELSE response.balances[<<a, RequestedChrono[i - 1]>>]
            IN  response.balances[<<a, RequestedChrono[i]>>] =
                    SnapEpsilon(RoundCents(before + walk_in.activity[RequestedChrono[i]]))
    /\ (response.op = "full_year_refresh" /\ response.status = 200) =>
          \A a \in BSAccounts : \A i \in 1..Len(month_order) :
            LET before == IF i = 1 THEN walk_in.prior
                          ELSE response.balances[<<a, Period(2025, month_order[i - 1])>>]
            IN  response.balances[<<a, Period(2025, month_order[i])>>] =
                    SnapEpsilon(before + walk_in.activity[Period(2025, month_order[i])])

\* the request examined names no period twice
NoPeriodRepeated ==
    \A i, j \in 1..Len(walk_in.periods) :
        i # j => walk_in.periods[i] # walk_in.periods[j]

\* C2, second reading: the same equations for the requests that name no
\* period twice (these the walks satisfy)
C2_PrefixSumWalkDistinct == NoPeriodRepeated => C2_PrefixSumWalk

(***************************************************************************)
(* SpecHier: get_subsidiaries_in_hierarchy on every subsidiary table over  *)
(* HierIds (forests, rows whose parent is inactive, parent cycles, a row   *)
(* that is its own parent), called for any target, with the rows returned  *)
(* in any order; a subsidiary can be made inactive between calls           *)
(***************************************************************************)
HierIds      == {"1", "2", "3"}
InactiveId   == "9"                  \* an id with no row in the table
HierTargets  == HierIds \cup {InactiveId}
EliminationIds == {"3"}              \* the ids that may be elimination subsidiaries

MaxHierCalls == 2                    \* calls in one run of SpecHier

\* the parents a row can have: none, any id of the table (itself included),
\* and for "3" also the inactive one
HierRowsOf(id) ==
    {[parent |-> p, iselimination |-> e] :
        p \in {NoParent} \cup HierIds \cup (IF id = "3" THEN {InactiveId} ELSE {}),
        e \in (IF id \in EliminationIds THEN BOOLEAN ELSE {FALSE})}

\* the tables with every id of HierIds active (SubsidiaryDeactivated leads to
\* the smaller ones)
HierTables ==
    {t \in [HierIds -> UNION {HierRowsOf(id) : id \in HierIds}] :
        \A id \in HierIds : t[id] \in HierRowsOf(id)}

\* the ids of a table as a sequence, ascending
HierIdOrder == <<"1", "2", "3">>
InTable(ids, id) == id \in ids
Ascending(ids) == SelectSeq(HierIdOrder, LAMBDA id : InTable(ids, id))

Reversed(seq) == [i \in 1..Len(seq) |-> seq[Len(seq) + 1 - i]]

\* the query results the remote system can give for the table: its rows by
\* ascending or by descending id
RowOrders(table) ==
    LET asc == Ascending(DOMAIN table)
    IN  {[i \in 1..Len(f) |-> [id |-> f[i], parent |-> table[f[i]].parent,
                               iselimination |-> table[f[i]].iselimination]] :
            f \in {asc, Reversed(asc)}}

HierarchyCall ==
    \E target_id \in HierTargets, ok \in BOOLEAN :
      \E rows \in RowOrders(subsidiary_table) :
        /\ get_subsidiaries_in_hierarchy(target_id, ok, rows)
        /\ calls < MaxHierCalls /\ calls' = calls + 1
        /\ UNCHANGED <<subsidiary_table, balance_cache, balance_cache_timestamp,
                       now, response, walkVars, ctaVars>>

\* isinactive becomes 'T' for one subsidiary: its row leaves the query result
SubsidiaryDeactivated ==
    \E id \in DOMAIN subsidiary_table :
        /\ subsidiary_table' = [k \in (DOMAIN subsidiary_table) \ {id} |-> subsidiary_table[k]]
        /\ UNCHANGED <<subsidiary_hierarchy_cache, hier_call, cacheVars, walkVars, ctaVars>>

InitHier ==
    /\ CacheIdle /\ WalkIdle /\ CtaIdle
    /\ subsidiary_table \in HierTables
    /\ subsidiary_hierarchy_cache = EmptyDict
    /\ hier_call = NoHierCall

NextHier == HierarchyCall \/ SubsidiaryDeactivated

SpecHier == InitHier /\ [][NextHier]_vars

(***************************************************************************)
(* Properties of the hierarchy (SpecHier)                                  *)
(***************************************************************************)
\* the last call computed its list from the rows of a remote query
HierComputed == hier_call.outcome = "computed"

ResultSet == Elems(hier_call.result)
RowIds    == {hier_call.rows[i].id : i \in 1..Len(hier_call.rows)}
ParentIn(id) ==
    (CHOOSE r \in Elems(hier_call.rows) : r.id = id).parent

\* S together with its descendants: the least set that holds S and every row
\* whose parent it holds
RECURSIVE DescendantClosure(_)
DescendantClosure(D) ==
    LET D2 == D \cup {id \in RowIds : ParentIn(id) \in D}
    IN  IF D2 = D THEN D ELSE DescendantClosure(D2)

\* C4: for a non-root target S the list computed from the subsidiary table
\* contains S, contains every active subsidiary whose parent is in the list,
\* and contains nothing but S and the descendants of S (an elimination
\* subsidiary only when it is a descendant).
C4_NonRootHierarchyClosed ==
    (HierComputed /\ ~IsRootTarget(hier_call.rows, hier_call.target)) =>
        /\ hier_call.target \in ResultSet
        /\ \A id \in RowIds : ParentIn(id) \in ResultSet => id \in ResultSet
        /\ ResultSet \subseteq DescendantClosure({hier_call.target})

\* C4 witness: a non-root target with a child and a grandchild in the list and
\* another active subsidiary left out
C4_GrandchildIncluded ==
    /\ HierComputed /\ ~IsRootTarget(hier_call.rows, hier_call.target)
    /\ \E c, g \in ResultSet \ {hier_call.target} :
          /\ c # g
          /\ ParentIn(c) = hier_call.target
          /\ ParentIn(g) = c
    /\ RowIds \ ResultSet # {}

\* C5: for a root target (its row has a null parent) the list computed is
\* exactly the set of all ids of the subsidiary table, the elimination
\* subsidiaries included, and no other id.
C5_RootReturnsWholeTable ==
    (HierComputed /\ IsRootTarget(hier_call.rows, hier_call.target)) =>
        ResultSet = RowIds

\* C5 witness: a root target, and in the table an elimination subsidiary that
\* is not under it
C5_RootWithForeignElimination ==
    /\ HierComputed /\ IsRootTarget(hier_call.rows, hier_call.target)
    /\ \E r \in Elems(hier_call.rows) :
          /\ r.iselimination
          /\ r.id \notin DescendantClosure({hier_call.target})
          /\ r.id \in ResultSet

\* C15: when the remote subsidiary-hierarchy query returns an error or raises,
\* get_subsidiaries_in_hierarchy(S) returns exactly the one-element list [S]
\* (a list, not an error value or an exception).
C15_FailureGivesTargetOnly ==
    (hier_call.remote /\ hier_call.outcome = "failed") =>
        hier_call.result = <<hier_call.target>>

\* C15 witness: the query failed for a target that has an active child, so
\* that [S] is not what a successful call would have returned; nothing was
\* cached for S
C15_FailedForParent ==
    /\ hier_call.outcome = "failed"
    /\ hier_call.result = <<hier_call.target>>
    /\ \E id \in DOMAIN subsidiary_table :
          subsidiary_table[id].parent = hier_call.target
    /\ hier_call.target \notin DOMAIN subsidiary_hierarchy_cache

(***************************************************************************)
(* SpecCta: one /cta request.  The remote system answers each call of a    *)
(* sub-query with its row, no row or an error, and a call of one of        *)
(* RateLimitedNames also with a rate-limit error; over the request it      *)
(* gives at most MaxRateLimits rate-limit answers.                         *)
(***************************************************************************)
MaxRateLimits == 3

\* the row each sub-query finds when it succeeds
CtaLedger ==
    [name \in CtaNames |->
        CASE name = "total_assets"      -> 16
          [] name = "total_liabilities" -> 0
          [] name = "posted_equity"     -> 7
          [] name = "prior_pl"          -> 7
          [] name = "posted_re"         -> 0
          [] name = "net_income"        -> 7]

CtaAnswers(name) ==
    {RowsResult(CtaLedger[name]), EmptyResult, ErrorResult("INVALID_SEARCH")}
CtaRateLimitAnswers == {ErrorResult(d) : d \in RateLimitSignals}
\* the first future submitted and the last
RateLimitedNames == {"total_assets", "net_income"}

\* the subsidiaries of the request: a root and its child
CtaSubsidiaries ==
    [id \in {"1", "2"} |->
        [parent |-> IF id = "1" THEN NoParent ELSE "1", iselimination |-> FALSE]]

CtaBegin ==
    \E found \in BOOLEAN, ok \in BOOLEAN :
      \E rows \in RowOrders(subsidiary_table) :
        \* target_sub = default_subsidiary_id or '1'
        /\ cta_begin(found, "1", ok, rows)
        /\ UNCHANGED <<rate_limits, subsidiary_table, cacheVars, walkVars>>

WorkerStart ==
    \E name \in CtaNames :
        /\ worker_start(name)
        /\ UNCHANGED <<rate_limits, cacheVars, walkVars, hierVars>>

QueryAnswered ==
    \E name \in CtaNames : \E result \in CtaAnswers(name) :
        /\ query_with_retry_pass(name, result)
        /\ UNCHANGED <<rate_limits, cacheVars, walkVars, hierVars>>

QueryRateLimited ==
    \E name \in RateLimitedNames : \E result \in CtaRateLimitAnswers :
        /\ rate_limits < MaxRateLimits
        /\ rate_limits' = rate_limits + 1
        /\ query_with_retry_pass(name, result)
        /\ UNCHANGED <<cacheVars, walkVars, hierVars>>

CtaRespond ==
    /\ cta_respond
    /\ UNCHANGED <<rate_limits, cacheVars, walkVars, hierVars>>

InitCta ==
    /\ CacheIdle /\ WalkIdle /\ CtaIdle
    /\ subsidiary_table = CtaSubsidiaries
    /\ subsidiary_hierarchy_cache = EmptyDict
    /\ hier_call = NoHierCall

NextCta ==
    \/ CtaBegin
    \/ WorkerStart
    \/ QueryAnswered
    \/ QueryRateLimited
    \/ CtaRespond

SpecCta == InitCta /\ [][NextCta]_vars

(***************************************************************************)
(* Properties of /cta and its sub-query executor (SpecCta)                 *)
(***************************************************************************)
\* C3: every /cta response that carries a value satisfies the plug identity
\* on the numbers it returns, total_assets - total_liabilities =
\* posted_equity + retained_earnings + net_income + value (each side computed
\* in the arithmetic of the values, left to right), with retained_earnings =
\* prior_pl + posted_re, whatever the outcomes of the six sub-queries.
C3_PlugIdentity ==
    cta_response.status = 200 =>
        LET c == cta_response.components
        IN  /\ FSub(c.total_assets, c.total_liabilities) =
                 FAdd(FAdd(FAdd(c.posted_equity, c.retained_earnings), c.net_income),
                      cta_response.value)
            /\ c.retained_earnings = FAdd(ResultOf("prior_pl"), ResultOf("posted_re"))

\* the calls and the waits of a sub-query, as positions of its log
CallsAt(name) == {i \in 1..Len(q_log[name]) : q_log[name][i].ev = "call"}
WaitsAt(name) == {i \in 1..Len(q_log[name]) : q_log[name][i].ev = "wait"}
\* the waits of a sub-query in order
WaitSecs(name) ==
    LET IsWait(e) == e.ev = "wait"
        waits == SelectSeq(q_log[name], IsWait)
    IN  [i \in 1..Len(waits) |-> waits[i].secs]

\* C9: a sub-query that keeps being rate-limited is retried up to 3 times
\* after its first attempt, with waits of 2 s, 4 s and 6 s before the first,
\* second and third retry: it is given up only after 1 + 3 calls, every wait
\* is followed by the retry it precedes, the k-th wait lasts 2k seconds; and
\* an answer that is no rate-limit error is returned at once (its call is the
\* last entry of the log).
C9_RetriedThreeTimes ==
    \A name \in CtaNames :
        /\ \A i \in 1..Len(WaitSecs(name)) : WaitSecs(name)[i] = 2 * i
        /\ \A i \in CallsAt(name) :
              q_log[name][i].out # "rate_limit" =>
                  i = Len(q_log[name]) /\ q_pc[name] = "done"
        /\ q_pc[name] = "done" =>
              /\ \A i \in WaitsAt(name) : i + 1 \in CallsAt(name)
              /\ (\A i \in CallsAt(name) : q_log[name][i].out = "rate_limit") =>
                    Cardinality(CallsAt(name)) = 1 + 3

\* C10: a call that returns an error that is no rate-limit signal is the last
\* thing query_with_retry does for the sub-query: no wait and no call follow
\* it (when it is the first answer the sub-query has had exactly one remote
\* call), and the error is with the collector (the name in query_errors, its
\* value 0.0) as soon as the call has returned.
C10_ErrorNotRetried ==
    \A name \in CtaNames : \A i \in CallsAt(name) :
        q_log[name][i].out = "error" =>
            /\ i = Len(q_log[name])
            /\ q_pc[name] = "done"
            /\ name \in query_errors
            /\ name \in DOMAIN results /\ results[name] = 0

\* C10 witness: a sub-query answered by such an error on its first call, done
\* after that one call, while another sub-query has been rate-limited and
\* tried again
C10_ErrorAfterOneCall ==
    \E name, other \in CtaNames :
        /\ name # other
        /\ Len(q_log[name]) = 1
        /\ q_log[name][1].out = "error"
        /\ q_pc[name] = "done" /\ name \in query_errors
        /\ Cardinality(CallsAt(other)) >= 2

(***************************************************************************)
(* SpecRefresh: one combined P&L+BS bulk refresh (batch_full_year_refresh  *)
(* or batch_periods_refresh) on an empty cache, for every combination of   *)
(* outcomes of its P&L query, its BS activity query and its prior-balance  *)
(* query                                                                   *)
(***************************************************************************)
RefreshPeriodLists == {<<P0>>, <<P1, P0>>, <<BadPeriod, P1>>, <<BadPeriod>>}
RefreshPrior == {Failed, Rows([a \in BSAccounts |-> 7000])}

FullYearRefreshOnce ==
    /\ request_in.handler = "full_year_refresh"
    /\ calls = 0 /\ calls' = 1
    /\ batch_full_year_refresh(request_in.fiscal_year, request_in.sub_raw,
                               request_in.skip_bs, request_in.pl, request_in.bs,
                               request_in.prior)
    /\ UNCHANGED <<now, walkKept, hierVars, ctaVars>>

PeriodsRefreshOnce ==
    /\ request_in.handler = "periods_refresh"
    /\ calls = 0 /\ calls' = 1
    /\ batch_periods_refresh(request_in.periods, request_in.sub_raw,
                             request_in.pl, request_in.bs, request_in.prior)
    /\ UNCHANGED <<now, walkVars, hierVars, ctaVars>>

InitRefresh ==
    /\ CacheIdle /\ HierIdle /\ CtaIdle
    /\ walk_in = [periods |-> <<>>, activity |-> EmptyDict, prior |-> 0]
    /\ bs_queries = {}
    /\ pager = NoPager
    /\ StepsIdle
    /\ FiscalIdle
    /\ BsActivityIdle
    /\ \/ request_in \in [handler : {"full_year_refresh"}, fiscal_year : FiscalYears,
                          sub_raw : CacheSubRaw, skip_bs : BOOLEAN,
                          pl : CachePLPivot, bs : CacheRows(BSAccounts, 2000),
                          prior : RefreshPrior]
       \/ request_in \in [handler : {"periods_refresh"}, periods : RefreshPeriodLists,
                          sub_raw : CacheSubRaw,
                          pl : CacheRows(PLAccounts, 1000),
                          bs : CacheRows(BSAccounts, 2000),
                          prior : RefreshPrior]

NextRefresh == FullYearRefreshOnce \/ PeriodsRefreshOnce

SpecRefresh == InitRefresh /\ [][NextRefresh]_vars

(***************************************************************************)
(* Properties of a combined refresh (SpecRefresh)                          *)
(***************************************************************************)
\* the P&L balances the refresh examined has computed when its P&L query
\* succeeded
ComputedPL ==
    IF request_in.handler = "full_year_refresh"
    THEN FullYearPL(request_in.fiscal_year, request_in.pl.rows)
    ELSE PeriodsPL(request_in.periods, request_in.pl.rows)

\* the refresh examined got as far as a successful P&L computation and then
\* had a Balance-Sheet-side query (activity or prior balance) fail
PLDoneBsFailed ==
    /\ calls = 1
    /\ request_in.pl.ok
    /\ \/ /\ request_in.handler = "full_year_refresh"
          /\ ~request_in.skip_bs
          /\ (~request_in.bs.ok \/ ~request_in.prior.ok)
       \/ /\ request_in.handler = "periods_refresh"
          /\ parsed_periods(request_in.periods) # <<>>
          /\ (~request_in.bs.ok \/ ~request_in.prior.ok)

\* the response is a success that carries every computed P&L balance
SuccessWithPL ==
    /\ response.status = 200
    /\ \A ap \in DOMAIN ComputedPL :
          /\ ap \in DOMAIN response.balances
          /\ response.balances[ap] = ComputedPL[ap]

\* C11: in a combined P&L+BS bulk refresh (batch_full_year_refresh and
\* batch_periods_refresh) whose P&L computation succeeded and whose later
\* Balance-Sheet-side query failed, the response is a success containing
\* every computed P&L balance.
C11_BsFailureKeepsPL == PLDoneBsFailed => SuccessWithPL

\* C11 for batch_full_year_refresh alone, whose BS part runs inside its own
\* try/except (this holds)
C11_FullYearBsFailureKeepsPL ==
    (PLDoneBsFailed /\ request_in.handler = "full_year_refresh") => SuccessWithPL

\* the case of C11_FullYearBsFailureKeepsPL: a full-year refresh answered 200
\* with P&L balances although its BS activity query failed
C11_FullYearBsFailed ==
    /\ PLDoneBsFailed /\ request_in.handler = "full_year_refresh"
    /\ ~request_in.bs.ok
    /\ response.status = 200 /\ DOMAIN response.balances # {}

(***************************************************************************)
(* calculate_net_income (server.py:5222-5368): one aggregate query through *)
(* query_netsuite, no retry.                                               *)
(*   found       whether get_fiscal_year_for_period gave a period          *)
(*   ok, rows    what the hierarchy query of get_subsidiaries_in_hierarchy  *)
(*               gives                                                     *)
(*   ni_result   what query_netsuite returned for net_income_query         *)
(* The JSON body of the response is its set of keys and the cell under     *)
(* 'value' (<<>> is null or no such key, <<v>> the number v).              *)
(***************************************************************************)
\* a list whose first row has 'net_income' / 'value' null (SUM over no rows)
NullResult == [kind |-> "null", value |-> 0, details |-> ""]

\* float(raw_value) if raw_value is not None else 0.0; 0.0 for an empty list
ParsedValue(result) == IF result.kind = "rows" THEN result.value ELSE 0

EquityResponse(op, status, keys, value) ==
    [op |-> op, status |-> status, keys |-> keys, value |-> value]

calculate_net_income(found, target_sub, ok, rows, ni_result) ==
    IF ~found
    THEN /\ response' = EquityResponse("net_income", 400, {"error"}, <<>>)
         /\ UNCHANGED <<subsidiary_hierarchy_cache, hier_call>>
    ELSE /\ get_subsidiaries_in_hierarchy(target_sub, ok, rows)
         /\ IF IsError(ni_result)
            THEN response' = EquityResponse("net_income", 500, {"error", "value"}, <<>>)
            ELSE response' = EquityResponse("net_income", 200,
                                            {"value", "period", "fiscal_year"},
                                            <<ParsedValue(ni_result)>>)

(***************************************************************************)
(* SpecNetIncome: one /net-income request, for every answer of the         *)
(* aggregate query                                                         *)
(***************************************************************************)
NetIncomeSums == -4..4
NetIncomeAnswers ==
    {RowsResult(v) : v \in NetIncomeSums}
        \cup {NullResult, EmptyResult}
        \cup {ErrorResult(d) : d \in {"", "INVALID_SEARCH", "429"}}

NetIncome ==
    /\ request_in.handler = "net_income"
    /\ calls = 0 /\ calls' = 1
    \* target_sub = default_subsidiary_id or '1'
    /\ calculate_net_income(request_in.found, "1", request_in.ok, request_in.rows,
                            request_in.ni_result)
    /\ UNCHANGED <<balance_cache, balance_cache_timestamp, now, subsidiary_table,
                   walkVars, ctaVars>>

InitNetIncome ==
    /\ CacheIdle /\ CtaIdle
    /\ walk_in = [periods |-> <<>>, activity |-> EmptyDict, prior |-> 0]
    /\ bs_queries = {}
    /\ pager = NoPager
    /\ StepsIdle
    /\ FiscalIdle
    /\ BsActivityIdle
    /\ subsidiary_table = CtaSubsidiaries
    /\ subsidiary_hierarchy_cache = EmptyDict
    /\ hier_call = NoHierCall
    /\ request_in \in [handler : {"net_income"}, found : BOOLEAN, ok : BOOLEAN,
                       rows : RowOrders(CtaSubsidiaries),
                       ni_result : NetIncomeAnswers]

NextNetIncome == NetIncome

SpecNetIncome == InitNetIncome /\ [][NextNetIncome]_vars

(***************************************************************************)
(* Properties of /net-income (SpecNetIncome)                               *)
(***************************************************************************)
\* the /net-income request examined has run its aggregate query
NetIncomeQueried ==
    request_in.handler = "net_income" /\ calls = 1 /\ request_in.found

\* C12: in /net-income, when the aggregate query ends in an error the
\* response is an explicit error (status 500, an 'error' key) whose 'value'
\* is null, never a number; and a response whose value is the number 0 comes
\* from a query that succeeded and gave no rows, a null sum, or a sum that is
\* itself 0.
C12_NetIncomeErrorIsNull ==
    NetIncomeQueried =>
        /\ request_in.ni_result.kind = "error" =>
              /\ response.status = 500
              /\ {"error", "value"} \subseteq response.keys
              /\ response.value = <<>>
        /\ response.value = <<0>> =>
              \/ request_in.ni_result.kind \in {"empty", "null"}
              \/ request_in.ni_result.kind = "rows" /\ request_in.ni_result.value = 0

\* C12 witness: a /net-income request whose query answered with an error dict,
\* answered by the 500 response with value null
C12_ErrorAnswered ==
    /\ NetIncomeQueried
    /\ request_in.ni_result.kind = "error"
    /\ response.status = 500 /\ response.value = <<>>

(***************************************************************************)
(* calculate_retained_earnings (server.py:5012-5219): two sub-queries run  *)
(* by query_with_retry_re on a pool of two threads, the collector loop     *)
(* over as_completed, and the sum.  The request uses the variables of the  *)
(* /cta request; its positions carry the prefix "re_", and results[name]   *)
(* stands for the local variable (prior_pl or posted_re) the collector     *)
(* assigns.                                                                *)
(***************************************************************************)
max_workers_re == 2    \* ThreadPoolExecutor(max_workers=2)

\* the futures dict, in the order the futures are submitted
ReQueryOrder == <<"prior_pl", "posted_re">>
ReNames == Elems(ReQueryOrder)

ReInFlight == {name \in ReNames : q_pc[name] = "running"}

ReNextPending(name) ==
    \E i \in 1..Len(ReQueryOrder) :
        /\ ReQueryOrder[i] = name
        /\ q_pc[name] = "pending"
        /\ \A j \in 1..(i - 1) : q_pc[ReQueryOrder[j]] # "pending"

\* the request up to the submission of the futures
re_begin(found, target_sub, ok, rows) ==
    /\ cta_pc = "re_idle"
    /\ IF ~found
       THEN /\ cta_pc' = "re_done"
            /\ cta_response' = [NoCtaResponse EXCEPT !.status = 400]
            /\ UNCHANGED <<subsidiary_hierarchy_cache, hier_call>>
       ELSE /\ get_subsidiaries_in_hierarchy(target_sub, ok, rows)
            /\ cta_pc' = "re_running"
            /\ UNCHANGED cta_response
    /\ UNCHANGED <<q_pc, q_attempt, q_log, results, query_errors, overtaken>>

\* a pool thread takes the next future
re_worker_start(name) ==
    /\ cta_pc = "re_running"
    /\ ReNextPending(name)
    /\ Cardinality(ReInFlight) < max_workers_re
    /\ q_pc' = [q_pc EXCEPT ![name] = "running"]
    /\ UNCHANGED <<cta_pc, q_attempt, q_log, results, query_errors, overtaken, cta_response>>

\* one pass of "for attempt in range(max_retries)" in query_with_retry_re,
\* a return ending in the collector (value into prior_pl or posted_re)
query_with_retry_re_pass(name, result) ==
    /\ cta_pc = "re_running"
    /\ q_pc[name] = "running"
    /\ IF IsRateLimited(result)
       THEN LET wait_time == (q_attempt[name] + 1) * 2
            IN  /\ q_log' = [q_log EXCEPT ![name] =
                                @ \o <<CallEvent(result), WaitEvent(wait_time)>>]
                /\ q_attempt' = [q_attempt EXCEPT ![name] = @ + 1]
                /\ IF q_attempt[name] + 1 < max_retries
                   THEN /\ UNCHANGED <<q_pc, results, query_errors, overtaken>>
                   ELSE /\ q_pc' = [q_pc EXCEPT ![name] = "done"]
                        /\ collect(name, result)
       ELSE /\ q_log' = [q_log EXCEPT ![name] = Append(@, CallEvent(result))]
            /\ q_pc' = [q_pc EXCEPT ![name] = "done"]
            /\ collect(name, result)
            /\ UNCHANGED q_attempt
    /\ UNCHANGED <<cta_pc, cta_response>>

\* "Final RE = prior years P&L + posted RE adjustments" to the jsonify
re_respond ==
    /\ cta_pc = "re_running"
    /\ \A name \in ReNames : q_pc[name] = "done"
    /\ LET prior_pl          == ResultOf("prior_pl")
           posted_re         == ResultOf("posted_re")
           retained_earnings == FAdd(prior_pl, posted_re)
       IN  cta_response' =
             [status |-> 200, value |-> retained_earnings,
              components |->
                [prior_years_pl |-> prior_pl, posted_re_adjustments |-> posted_re]]
    /\ cta_pc' = "re_done"
    /\ UNCHANGED <<q_pc, q_attempt, q_log, results, query_errors, overtaken>>

(***************************************************************************)
(* SpecEquity: one /cta request or one /retained-earnings request, the     *)
(* remote system answering as in SpecCta                                   *)
(***************************************************************************)
ReBegin ==
    \E found \in BOOLEAN, ok \in BOOLEAN :
      \E rows \in RowOrders(subsidiary_table) :
        /\ re_begin(found, "1", ok, rows)
        /\ UNCHANGED <<rate_limits, subsidiary_table, cacheVars, walkVars>>

ReWorkerStart ==
    \E name \in ReNames :
        /\ re_worker_start(name)
        /\ UNCHANGED <<rate_limits, cacheVars, walkVars, hierVars>>

ReQueryAnswered ==
    \E name \in ReNames : \E result \in CtaAnswers(name) \cup {NullResult} :
        /\ query_with_retry_re_pass(name, result)
        /\ UNCHANGED <<rate_limits, cacheVars, walkVars, hierVars>>

ReQueryRateLimited ==
    \E name \in ReNames : \E result \in CtaRateLimitAnswers :
        /\ rate_limits < MaxRateLimits
        /\ rate_limits' = rate_limits + 1
        /\ query_with_retry_re_pass(name, result)
        /\ UNCHANGED <<cacheVars, walkVars, hierVars>>

ReRespond ==
    /\ re_respond
    /\ UNCHANGED <<rate_limits, cacheVars, walkVars, hierVars>>

InitRe ==
    /\ CacheIdle /\ WalkIdle
    /\ subsidiary_table = CtaSubsidiaries
    /\ subsidiary_hierarchy_cache = EmptyDict
    /\ hier_call = NoHierCall
    /\ cta_pc = "re_idle"
    /\ q_pc = [name \in ReNames |-> "pending"]
    /\ q_attempt = [name \in ReNames |-> 0]
    /\ q_log = [name \in ReNames |-> <<>>]
    /\ results = EmptyDict
    /\ query_errors = {}
    /\ overtaken = FALSE
    /\ rate_limits = 0
    /\ cta_response = NoCtaResponse

InitEquity == InitCta \/ InitRe

NextEquity ==
    \/ CtaBegin
    \/ WorkerStart
    \/ QueryAnswered
    \/ QueryRateLimited
    \/ CtaRespond
    \/ ReBegin
    \/ ReWorkerStart
    \/ ReQueryAnswered
    \/ ReQueryRateLimited
    \/ ReRespond

SpecEquity == InitEquity /\ [][NextEquity]_vars

(***************************************************************************)
(* Properties of /cta and /retained-earnings (SpecEquity)                  *)
(***************************************************************************)
\* the sub-queries of the request examined
EquityNames == DOMAIN q_pc

\* the request examined has sent its response
EquityDone == cta_pc \in {"done", "re_done"}

\* the outcome of a sub-query's last remote call ("none" before its first)
LastOutcome(name) ==
    IF CallsAt(name) = {} THEN "none"
    ELSE q_log[name][CHOOSE i \in CallsAt(name) : \A j \in CallsAt(name) : j <= i].out

\* the sub-queries that ended in an error after query_with_retry gave up or
\* returned
FailedNames ==
    {name \in EquityNames :
        q_pc[name] = "done" /\ LastOutcome(name) \in {"error", "rate_limit"}}

\* C13: in /retained-earnings and /cta, when a required aggregate sub-query
\* still ends in an error after the retry policy, the caller gets an explicit
\* error and no numeric value: the response of a request with a failed
\* sub-query is no 200 response.
C13_FailedAggregateIsError ==
    (EquityDone /\ FailedNames # {}) => cta_response.status # 200

\* the case C13 is about, as the code handles it: a 200 response with a value
\* although a sub-query failed, the failed aggregate entering as 0
C13_FailedAggregateZeroed ==
    /\ EquityDone /\ FailedNames # {}
    /\ cta_response.status = 200
    /\ \A name \in FailedNames : ResultOf(name) = 0

(***************************************************************************)
(* The period lookup of batch_balance's recomputation                      *)
(* (server.py:150-180, 183-215, 1109-1165, 3138-3153, 3237-3270).          *)
(* A date "MM/DD/YYYY" is the triple <<month, day, year>> and a date       *)
(* "YYYY-MM-DD" the triple <<year, month, day>>, months 1..12.  A period   *)
(* table gives, for the names get_period_dates_from_name finds (in         *)
(* lookup_cache['periods'] or in AccountingPeriod), the row's enddate and  *)
(* id.                                                                     *)
(***************************************************************************)
\* calendar.isleap
isleap(year) == year % 4 = 0 /\ (year % 100 # 0 \/ year % 400 = 0)

\* calendar.mdays[1..12]
mdays == <<31, 28, 31, 30, 31, 30, 31, 31, 30, 31, 30, 31>>

\* a month length that ignores leap years
mdays_only(year, month) == mdays[month]

\* calendar.monthrange(year, month)[1]
monthrange_last(year, month) ==
    IF month = 2 /\ isleap(year) THEN 29 ELSE mdays[month]

\* calculate_period_end_date: <<>> is None, else <<"MM/DD/YYYY">>
calculate_period_end_date(period_name) ==
    IF period_name[2] < 0 THEN <<>>
    ELSE LET year  == period_name[1]
             month == period_name[2] + 1
         IN  <<(<<month, monthrange_last(year, month), year>>)>>

\* a lookup that gives up on a period the table does not have
period_info_found_only(periods, table) ==
    [p \in periods \cap DOMAIN table |-> [enddate |-> table[p].enddate, id |-> <<table[p].id>>]]

\* period_info of batch_balance; id <<>> is None
period_info(periods, table) ==
    [p \in {x \in periods : x \in DOMAIN table \/ calculate_period_end_date(x) # <<>>} |->
        IF p \in DOMAIN table
        THEN [enddate |-> table[p].enddate, id |-> <<table[p].id>>]
        ELSE [enddate |-> calculate_period_end_date(p)[1], id |-> <<>>]]

\* datetime.strptime(enddate, '%m/%d/%Y').strftime('%Y-%m-%d')
end_date_str(enddate) == <<enddate[3], enddate[1], enddate[2]>>

\* build_bs_query_single_period: the parts of the query that depend on the period
build_bs_query_single_period(period_name, info) ==
    [period |-> period_name,
     end_date_str |-> end_date_str(info.enddate),
     amount_calc |-> IF info.id # <<>> THEN "BUILTIN.CONSOLIDATE" ELSE "tal.amount"]

\* the BS queries of "for period, info in period_info.items()"
BsQueriesBuilt(bs_accounts, periods, table) ==
    IF bs_accounts = {} \/ DOMAIN period_info(periods, table) = {} THEN {}
    ELSE {build_bs_query_single_period(p, period_info(periods, table)[p]) :
             p \in DOMAIN period_info(periods, table)}

(***************************************************************************)
(* SpecPeriods: one batch_balance request on an empty cache, recomputed,   *)
(* for every small set of requested period names and every period table   *)
(* below; the account type query and the balance queries succeed           *)
(***************************************************************************)
LookupPeriodNames ==
    {<<2024, 1>>, <<2025, 1>>, <<2100, 1>>, <<2025, 0>>, <<2025, 3>>, BadPeriod}
LookupPeriodSets ==
    {ps \in SUBSET LookupPeriodNames : Cardinality(ps) \in {1, 2}}

\* the AccountingPeriod row of a period: its true end date and an id
PeriodRow(p) ==
    [enddate |-> <<p[2] + 1, monthrange_last(p[1], p[2] + 1), p[1]>>,
     id |-> 100 + p[2]]
PeriodTables ==
    {[p \in ps |-> PeriodRow(p)] : ps \in {{}, {<<2025, 0>>}, {<<2025, 0>>, <<2024, 1>>}}}

\* the remote ledger: Income 1000 in every period of the table; Bank, per
\* day of the cut-off month, 1000 unconverted and 2000 consolidated
BsLedger(query) ==
    query.end_date_str[3] * (IF query.amount_calc = "tal.amount" THEN 1000 ELSE 2000)

LookupRemote(accounts, periods, table) ==
    LET pl == [ap \in (accounts \cap PLAccounts) \X (periods \cap DOMAIN table) |-> 1000]
        bs == [ap \in (accounts \cap BSAccounts) \X DOMAIN period_info(periods, table) |->
                  BsLedger(build_bs_query_single_period(
                               ap[2], period_info(periods, table)[ap[2]]))]
    IN  Rows(Merge(pl, bs))

BatchBalanceLookup ==
    /\ request_in.handler = "batch_balance"
    /\ calls = 0 /\ calls' = 1
    /\ batch_balance(request_in.accounts, request_in.periods, "",
                     LookupRemote(request_in.accounts, request_in.periods,
                                  request_in.table))
    /\ bs_queries' = BsQueriesBuilt(request_in.accounts \cap BSAccounts,
                                    request_in.periods, request_in.table)
    /\ UNCHANGED <<now, walk_in, request_in, pager, stepVars, fiscalVars, bsVars, hierVars, ctaVars>>

InitPeriods ==
    /\ CacheIdle /\ HierIdle /\ CtaIdle
    /\ walk_in = [periods |-> <<>>, activity |-> EmptyDict, prior |-> 0]
    /\ bs_queries = {}
    /\ pager = NoPager
    /\ StepsIdle
    /\ FiscalIdle
    /\ BsActivityIdle
    /\ request_in \in [handler : {"batch_balance"},
                       accounts : {PLAccounts, BSAccounts, Accounts},
                       periods : LookupPeriodSets,
                       table : PeriodTables]

NextPeriods == BatchBalanceLookup

SpecPeriods == InitPeriods /\ [][NextPeriods]_vars

(***************************************************************************)
(* Properties of the period lookup (SpecPeriods)                           *)
(***************************************************************************)
\* the request examined has been answered and asked for a Balance-Sheet account
BsBalanceAnswered ==
    /\ request_in.handler = "batch_balance" /\ calls = 1
    /\ request_in.accounts \cap BSAccounts # {}

\* the requested period names without a row in the period table
Unlisted == request_in.periods \ DOMAIN request_in.table

\* the last calendar day of a month of the Gregorian calendar
LastDayOfMonth(year, month) ==
    CASE month \in {1, 3, 5, 7, 8, 10, 12} -> 31
      [] month \in {4, 6, 9, 11} -> 30
      [] OTHER -> IF year % 400 = 0 THEN 29
                  ELSE IF year % 100 = 0 THEN 28
                  ELSE IF year % 4 = 0 THEN 29 ELSE 28

\* a BS query was built for period p with unconverted amounts
UnconvertedQueryFor(p) ==
    \E q \in bs_queries : q.period = p /\ q.amount_calc = "tal.amount"

\* the BS query built for p, which names a month, cuts off at the last
\* calendar day of that month and uses unconverted amounts
MonthEndQueryFor(p) ==
    \E q \in bs_queries :
        /\ q.period = p
        /\ q.amount_calc = "tal.amount"
        /\ q.end_date_str = <<p[1], p[2] + 1, LastDayOfMonth(p[1], p[2] + 1)>>

\* C14 as claimed: every requested period name that has no row in the period
\* table gets an end date (the last calendar day of the month it names) with
\* id null, its Balance-Sheet query is built with unconverted amounts, and
\* the request ends in a success response.
C14_UnlistedPeriodDegrades ==
    BsBalanceAnswered =>
        /\ response.status = 200
        /\ \A p \in Unlisted :
              /\ UnconvertedQueryFor(p)
              /\ p[2] >= 0 => MonthEndQueryFor(p)

\* C14 amended: the same for every requested period name that names a month
\* ("Mon YYYY"); a name that names no month gets no end date and no
\* Balance-Sheet query, its balances are the zero fill, and the request still
\* ends in a success response.
C14_UnlistedMonthDegrades ==
    BsBalanceAnswered =>
        /\ response.status = 200
        /\ \A p \in Unlisted :
              IF p[2] >= 0
              THEN MonthEndQueryFor(p)
              ELSE /\ \A q \in bs_queries : q.period # p
                   /\ \A a \in request_in.accounts : response.balances[<<a, p>>] = 0

\* C14 witness: a request for February of a leap year, absent from the period
\* table, answered 200 from a query cut off at the 29th with unconverted
\* amounts
C14_LeapFebruaryUnlisted ==
    /\ BsBalanceAnswered
    /\ <<2024, 1>> \in Unlisted
    /\ response.status = 200
    /\ \E q \in bs_queries :
          q.period = <<2024, 1>> /\ q.end_date_str = <<2024, 2, 29>>
              /\ q.amount_calc = "tal.amount"
    /\ \A a \in request_in.accounts \cap BSAccounts :
          response.balances[<<a, <<2024, 1>>>>] = 29000

(***************************************************************************)
(* SpecFilter: bulk refreshes and batch_balance requests whose subsidiary  *)
(* filter is absent, an id, a name of the lookup cache (in any case, with  *)
(* or without the "(Consolidated)" suffix) or a name the lookup cache does *)
(* not have.  The remote ledger answers a query by the subsidiary clause   *)
(* the handler put into it.                                                *)
(***************************************************************************)
FilterValues ==
    {"", "2", "Acme", "Acme (Consolidated)", "Typo Corp", "Typo Corp (Consolidated)"}

\* Income per month as the remote system sums it: over all subsidiaries
\* when the query has no subsidiary clause, else for the subsidiary named
SubsidiaryLedger(subsidiary) ==
    CASE subsidiary = "" -> 1000
      [] subsidiary = "1" -> 700
      [] subsidiary = "2" -> 200
      [] OTHER -> 100

\* the rows a query answers, given the request's raw filter
FilterPivot(sub_raw) ==
    Rows([a \in PLAccounts |->
            [m \in Months |-> <<SubsidiaryLedger(convert_name_to_id(sub_raw))>>]])
FilterRows(sub_raw, periods) ==
    Rows([ap \in PLAccounts \X periods |-> SubsidiaryLedger(convert_name_to_id(sub_raw))])

FullYearRefreshFiltered ==
    \E fy \in FiscalYears, sub_raw \in FilterValues :
        /\ batch_full_year_refresh(fy, sub_raw, TRUE, FilterPivot(sub_raw), Failed, Failed)
        /\ Handled
        /\ request_in' = [handler |-> "full_year_refresh", sub_raw |-> sub_raw]
        /\ UNCHANGED <<now, walk_in, bs_queries, pager, stepVars, fiscalVars, hierVars, ctaVars>>

PeriodsRefreshFiltered ==
    \E periods \in {<<P0>>, <<P1, P0>>}, sub_raw \in FilterValues :
        /\ batch_periods_refresh(periods, sub_raw, FilterRows(sub_raw, Elems(periods)),
                                 Rows(EmptyDict), Rows(EmptyDict))
        /\ Handled
        /\ request_in' = [handler |-> "periods_refresh", sub_raw |-> sub_raw]
        /\ UNCHANGED <<now, walk_in, bs_queries, pager, stepVars, fiscalVars, bsVars, hierVars, ctaVars>>

BatchBalanceFiltered ==
    \E periods \in {{P0}, {P0, P1}}, sub_raw \in FilterValues :
        /\ batch_balance(PLAccounts, periods, sub_raw, FilterRows(sub_raw, periods))
        /\ Handled
        /\ request_in' = [handler |-> "batch_balance", sub_raw |-> sub_raw]
        /\ UNCHANGED <<now, walk_in, bs_queries, pager, stepVars, fiscalVars, bsVars, hierVars, ctaVars>>

InitFilter == CacheIdle /\ WalkIdle /\ HierIdle /\ CtaIdle

NextFilter ==
    \/ FullYearRefreshFiltered
    \/ PeriodsRefreshFiltered
    \/ BatchBalanceFiltered

SpecFilter == InitFilter /\ [][NextFilter]_vars

(***************************************************************************)
(* Properties of the filter conversion (SpecFilter)                        *)
(***************************************************************************)
\* a non-numeric name that the loaded lookup cache does not have (looked up
\* the way the cache is keyed: lower case, without the "(Consolidated)" suffix)
AbsentName(value) ==
    /\ value # "" /\ value \notin DigitStrings
    /\ strip_consolidated(lower_strip(value)) \notin DOMAIN lookup_subsidiaries

\* the filter partition of no filter at all
NoFilters == filters_hash("", "", "", "")

\* C16: convert_name_to_id returns the empty id for every non-numeric name
\* absent from the lookup cache, and the request then proceeds as if the
\* filter had not been supplied: it succeeds, every cache key it asks for or
\* writes lies in the partition of no filter, a cache answer is the unfiltered
\* partition's entry and a computed answer comes from a query without a
\* subsidiary clause; an all-digit value is returned unchanged as the id and
\* names the partition.
C16_UnknownFilterDropped ==
    request_in.handler # "none" =>
        LET raw == request_in.sub_raw
        IN  /\ AbsentName(raw) =>
                  /\ convert_name_to_id(raw) = ""
                  /\ response.status = 200
                  /\ \A k \in response.keys : k[3] = NoFilters
                  /\ \A k \in response.keys :
                        response.balances[PairOf(k)] =
                            IF response.from_cache THEN balance_cache[k]
                            ELSE SubsidiaryLedger("")
            /\ raw \in DigitStrings =>
                  /\ convert_name_to_id(raw) = raw
                  /\ \A k \in response.keys : k[3] = filters_hash(raw, "", "", "")

\* C16 witness: batch_balance asked with a name the lookup cache does not
\* have while the cache holds both the unfiltered partition and the partition
\* of subsidiary 2; it is served the unfiltered partition from the cache
C16_UnknownNameServedUnfiltered ==
    /\ request_in.handler = "batch_balance"
    /\ AbsentName(request_in.sub_raw)
    /\ response.from_cache
    /\ \E k \in DOMAIN balance_cache : k[3] = filters_hash("2", "", "", "")
    /\ \A k \in response.keys :
          k[3] = NoFilters /\ response.balances[PairOf(k)] = SubsidiaryLedger("")

(***************************************************************************)
(* SpecZeroFill: batch_balance requests against a remote system that       *)
(* returns a row for any part of the requested (account, period) pairs, or *)
(* fails, with full-year refreshes and the clock in between so that both   *)
(* the cache path and the recompute path are taken.                        *)
(***************************************************************************)
ZeroFillAccountSets == {PLAccounts, Accounts}
ZeroFillPeriodSets  == {{P0}, {P0, P1}}

\* the rows of one request: a balance of 500 for each pair of any subset
ZeroFillRemote(accounts, periods) ==
    {Failed} \cup {Rows([ap \in S |-> 500]) : S \in SUBSET (accounts \X periods)}

BatchBalanceRows ==
    \E accounts \in ZeroFillAccountSets, periods \in ZeroFillPeriodSets :
      \E remote \in ZeroFillRemote(accounts, periods) :
        /\ batch_balance(accounts, periods, "", remote)
        /\ Handled
        /\ request_in' = [handler |-> "batch_balance", accounts |-> accounts,
                          periods |-> periods, rows |-> remote.rows]
        /\ UNCHANGED <<now, walk_in, bs_queries, pager, stepVars, fiscalVars, bsVars, hierVars, ctaVars>>

InitZeroFill == CacheIdle /\ WalkIdle /\ HierIdle /\ CtaIdle

NextZeroFill ==
    \/ FullYearRefresh
    \/ ClockTick
    \/ BatchBalanceRows

SpecZeroFill == InitZeroFill /\ [][NextZeroFill]_vars

(***************************************************************************)
(* Properties of the batch_balance response (SpecZeroFill)                 *)
(***************************************************************************)
RequestedPairs == request_in.accounts \X request_in.periods

\* C17: a successful batch_balance response, from the cache or recomputed,
\* holds one value for each requested (account, period) pair and for no
\* other pair, and on the recompute path each pair the remote system
\* returned no row for has the value 0.
C17_EveryPairAnswered ==
    (response.op = "batch_balance" /\ response.status = 200) =>
        /\ DOMAIN response.balances = RequestedPairs
        /\ ~response.from_cache =>
              \A ap \in RequestedPairs :
                  ap \notin DOMAIN request_in.rows => response.balances[ap] = 0

\* C17 witness: a recomputed answer for two accounts and two periods where
\* the remote system returned a row for some pairs and none for others
C17_PartlyAnswered ==
    /\ response.op = "batch_balance"
    /\ response.status = 200 /\ ~response.from_cache
    /\ request_in.accounts = Accounts /\ request_in.periods = {P0, P1}
    /\ \E ap \in RequestedPairs : ap \in DOMAIN request_in.rows
    /\ \E ap \in RequestedPairs :
          ap \notin DOMAIN request_in.rows /\ response.balances[ap] = 0

(***************************************************************************)
(* run_paginated_suiteql (server.py:1795-1851).  The remote result set is  *)
(* the sequence <<1, ..., n>>, so that a row dropped, repeated or out of   *)
(* place shows in what is returned.  pager holds the locals all_rows,      *)
(* offset and page_num, the offsets requested so far (history) and where   *)
(* the call stands: in its loop, returned, or raised.                      *)
(***************************************************************************)
MaxResultRows == 7     \* the largest remote result set

Min(a, b) == IF a < b THEN a ELSE b

\* the page the remote system answers for ?limit=page_size&offset=offset
remote_page(result_set, offset, page_size) ==
    SubSeq(result_set, offset + 1, Min(offset + page_size, Len(result_set)))

\* while page_num < max_pages
within_max_pages(page_num, max_pages) == page_num < max_pages

\* one pass of the loop body that gets a 200 answer
fetch_page(result_set, page_size, max_pages) ==
    LET rows == remote_page(result_set, pager.offset, page_size)
    IN  /\ pager.pc = "loop"
        /\ within_max_pages(pager.page_num, max_pages)
        /\ pager' = [pc       |-> IF Len(rows) < page_size THEN "returned" ELSE "loop",
                     all_rows |-> pager.all_rows \o rows,
                     offset   |-> IF Len(rows) < page_size THEN pager.offset
                                  ELSE pager.offset + page_size,
                     page_num |-> pager.page_num + 1,
                     offsets  |-> Append(pager.offsets, pager.offset)]

\* one pass of the loop body that gets another status: raise Exception
page_error(max_pages) ==
    /\ pager.pc = "loop"
    /\ within_max_pages(pager.page_num, max_pages)
    /\ pager' = [pager EXCEPT !.pc = "raised", !.page_num = @ + 1,
                              !.offsets = Append(@, pager.offset)]

\* the loop condition fails: return all_rows
pages_exhausted(max_pages) ==
    /\ pager.pc = "loop"
    /\ ~within_max_pages(pager.page_num, max_pages)
    /\ pager' = [pager EXCEPT !.pc = "returned"]

(***************************************************************************)
(* SpecPager: one call of run_paginated_suiteql, for every result set of   *)
(* up to MaxResultRows rows, small page sizes and page limits.             *)
(***************************************************************************)
PageSizes == {1, 2, 3}
PageLimits == {1, 2, 3}

PagerUnchanged ==
    UNCHANGED <<cacheVars, walk_in, request_in, bs_queries, stepVars, fiscalVars, bsVars, hierVars, ctaVars>>

FetchPage ==
    /\ fetch_page(request_in.result_set, request_in.page_size, request_in.max_pages)
    /\ PagerUnchanged

PageError == page_error(request_in.max_pages) /\ PagerUnchanged

PagesExhausted == pages_exhausted(request_in.max_pages) /\ PagerUnchanged

InitPager ==
    /\ CacheIdle /\ HierIdle /\ CtaIdle
    /\ walk_in = [periods |-> <<>>, activity |-> EmptyDict, prior |-> 0]
    /\ bs_queries = {}
    /\ request_in \in {[handler |-> "run_paginated_suiteql",
                        result_set |-> [i \in 1..n |-> i],
                        page_size |-> ps, max_pages |-> mp] :
                          n \in 0..MaxResultRows, ps \in PageSizes, mp \in PageLimits}
    /\ pager = [NoPager EXCEPT !.pc = "loop"]
    /\ StepsIdle
    /\ FiscalIdle
    /\ BsActivityIdle

NextPager ==
    \/ FetchPage
    \/ PageError
    \/ PagesExhausted

SpecPager == InitPager /\ [][NextPager]_vars

(***************************************************************************)
(* Properties of run_paginated_suiteql (SpecPager)                         *)
(***************************************************************************)
\* the i-th page is asked for at offset (i-1)*page_size
OffsetsInStep ==
    \A i \in 1..Len(pager.offsets) : pager.offsets[i] = (i - 1) * request_in.page_size

\* C18: run_paginated_suiteql asks for the pages at offsets 0, page_size,
\* 2*page_size, ..., and when it returns it has stopped on a page shorter
\* than page_size and returns the rows of the remote result set, each once
\* and in order, whatever the size of the result set.
C18_AllRowsReturned ==
    /\ pager.pc # "none" => OffsetsInStep
    /\ pager.pc = "returned" =>
          /\ pager.all_rows = request_in.result_set
          /\ pager.page_num * request_in.page_size > Len(request_in.result_set)

\* The part of C18 that holds: the offsets are in step, what is returned is a
\* prefix of the result set without gap or repeat, and it is all of it when
\* the result set is shorter than page_size * max_pages.
C18_PrefixReturned ==
    /\ pager.pc # "none" => OffsetsInStep
    /\ pager.pc = "returned" =>
          /\ pager.all_rows =
                SubSeq(request_in.result_set, 1,
                       Min(Len(request_in.result_set),
                           request_in.page_size * request_in.max_pages))
          /\ Len(request_in.result_set) < request_in.page_size * request_in.max_pages
                => pager.all_rows = request_in.result_set

\* a call that returned after its last allowed page came back full while the
\* result set has more rows
C18_TruncatedAtPageLimit ==
    /\ pager.pc = "returned"
    /\ pager.page_num = request_in.max_pages
    /\ Len(pager.all_rows) < Len(request_in.result_set)

(***************************************************************************)
(* Properties of the collector (SpecEquity)                                *)
(***************************************************************************)
\* what the outcome of a sub-query's last remote call is worth: its row's
\* value, and 0.0 for an empty result, a null cell or an error
OutcomeValue(name) == IF LastOutcome(name) = "rows" THEN CtaLedger[name] ELSE 0

\* the /cta response as a function of one value per name
CtaOfValues(v) ==
    LET total_equity      == FSub(v["total_assets"], v["total_liabilities"])
        retained_earnings == FAdd(v["prior_pl"], v["posted_re"])
    IN  [status |-> 200,
         value |-> FSub(FSub(FSub(total_equity, v["posted_equity"]), retained_earnings),
                        v["net_income"]),
         components |->
            [total_assets |-> v["total_assets"],
             total_liabilities |-> v["total_liabilities"],
             total_equity |-> total_equity, posted_equity |-> v["posted_equity"],
             retained_earnings |-> retained_earnings, net_income |-> v["net_income"]]]

\* the /retained-earnings response as a function of one value per name
ReOfValues(v) ==
    [status |-> 200, value |-> FAdd(v["prior_pl"], v["posted_re"]),
     components |-> [prior_years_pl |-> v["prior_pl"],
                     posted_re_adjustments |-> v["posted_re"]]]

\* C19: the result of /cta and of /retained-earnings depends only on the
\* outcome of each named sub-query, whatever the order the sub-queries
\* complete in: the collector holds, for each sub-query that has completed
\* and for no other name, what that sub-query's own outcome is worth, and a
\* 200 response is the value and components computed from the outcomes by
\* name.
C19_ResultByNameOnly ==
    /\ DOMAIN results = {name \in EquityNames : q_pc[name] = "done"}
    /\ \A name \in DOMAIN results : results[name] = OutcomeValue(name)
    /\ (cta_pc = "done" /\ cta_response.status = 200) =>
          cta_response = CtaOfValues([name \in CtaNames |-> OutcomeValue(name)])
    /\ (cta_pc = "re_done" /\ cta_response.status = 200) =>
          cta_response = ReOfValues([name \in ReNames |-> OutcomeValue(name)])

\* C19 witness: a /cta request answered 200 in which a sub-query completed
\* before one submitted earlier, total_assets found its row, another
\* sub-query failed, and the plug is the one of the outcomes by name
C19_OvertakenAndAnswered ==
    /\ cta_pc = "done" /\ cta_response.status = 200
    /\ overtaken
    /\ LastOutcome("total_assets") = "rows"
    /\ FailedNames # {}
    /\ cta_response.components.total_assets = CtaLedger["total_assets"]

\* the sub-queries a pool thread is running
Running == {name \in EquityNames : q_pc[name] = "running"}

\* C20: during a /cta request at most 3 of its six sub-queries are in flight
\* at any moment, during a /retained-earnings request at most 2, and the
\* plug or sum is computed only after every dispatched sub-query has
\* produced a result or an error.
C20_BoundedFanOut ==
    /\ cta_pc \in {"running", "done"} =>
          EquityNames = CtaNames /\ Cardinality(CtaNames) = 6 /\ Cardinality(Running) <= 3
    /\ cta_pc \in {"re_running", "re_done"} => Cardinality(Running) <= 2
    /\ (EquityDone /\ cta_response.status = 200) =>
          \A name \in EquityNames :
              /\ q_pc[name] = "done"
              /\ LastOutcome(name) # "none"
              /\ name \in DOMAIN results

\* C20 witness: a /cta request with three sub-queries in flight and the other
\* three waiting for a pool thread, no response computed yet
C20_PoolFull ==
    /\ cta_pc = "running"
    /\ Cardinality(Running) = 3
    /\ Cardinality({name \in CtaNames : q_pc[name] = "pending"}) = 3
    /\ cta_response = NoCtaResponse

(***************************************************************************)
(* batch_balance and batch_full_year_refresh statement by statement.       *)
(* app.run (server.py:5700) serves each request on a thread of its own and *)
(* no handler takes a lock, so the statements of two requests interleave.  *)
(* bb_req holds the locals of a batch_balance request on its cache path    *)
(* (server.py:3033-3077): the keys its loop has still to visit, in the     *)
(* order of the loops, all_in_cache, result_balances, and (history) the    *)
(* pairs whose read fell back on the default of balance_cache.get.         *)
(* fy_req holds the locals of a batch_full_year_refresh from the moment    *)
(* its P&L rows are in (server.py:2030-2044): the balances it has still to *)
(* store.                                                                  *)
(***************************************************************************)
StepKeys(accounts, periods, fh) ==
    [i \in 1..(Len(accounts) * Len(periods)) |->
        cache_key(accounts[((i - 1) \div Len(periods)) + 1],
                  periods[((i - 1) % Len(periods)) + 1], fh)]

\* "if balance_cache and balance_cache_timestamp:" and "if cache_age <
\* BALANCE_CACHE_TTL:", then the loops are entered or the request recomputes
bb_enter(accounts, periods, fh) ==
    /\ bb_req.pc = "none"
    /\ bb_req' = [pc |-> IF CacheFresh THEN "check" ELSE "recompute",
                  keys |-> StepKeys(accounts, periods, fh),
                  todo |-> StepKeys(accounts, periods, fh),
                  all_in_cache |-> TRUE, result_balances |-> EmptyDict,
                  defaulted |-> {}]
    /\ UNCHANGED <<balance_cache, balance_cache_timestamp, response>>

\* one pass of "if cache_key not in balance_cache: all_in_cache = False";
\* after the last one "if all_in_cache:"
bb_check ==
    /\ bb_req.pc = "check"
    /\ LET found == Head(bb_req.todo) \in DOMAIN balance_cache
           all   == bb_req.all_in_cache /\ found
           rest  == Tail(bb_req.todo)
       IN  bb_req' = [bb_req EXCEPT
                        !.all_in_cache = all,
                        !.todo = IF rest = <<>> THEN bb_req.keys ELSE rest,
                        !.pc = IF rest # <<>> THEN "check"
                               ELSE IF all THEN "read" ELSE "recompute"]
    /\ UNCHANGED <<balance_cache, balance_cache_timestamp, response>>

\* balance_cache.get(cache_key, 0)
get_or_zero(key) == IF key \in DOMAIN balance_cache THEN balance_cache[key] ELSE 0

\* one pass of "result_balances[account][period] = balance_cache.get(cache_key, 0)";
\* after the last one the response with from_cache
bb_read ==
    /\ bb_req.pc = "read"
    /\ LET key    == Head(bb_req.todo)
           rest   == Tail(bb_req.todo)
           result == Merge(bb_req.result_balances,
                           [ap \in {<<key[1], key[2]>>} |-> get_or_zero(key)])
       IN  /\ bb_req' = [bb_req EXCEPT
                            !.result_balances = result,
                            !.todo = rest,
                            !.defaulted = IF key \in DOMAIN balance_cache THEN @
                                          ELSE @ \cup {<<key[1], key[2]>>},
                            !.pc = IF rest = <<>> THEN "responded" ELSE "read"]
           /\ response' =
                IF rest = <<>>
                THEN [op |-> "batch_balance", status |-> 200, from_cache |-> TRUE,
                      remote |-> FALSE, at |-> now,
                      keys |-> Elems(bb_req.keys), balances |-> result]
                ELSE response
    /\ UNCHANGED <<balance_cache, balance_cache_timestamp>>

\* the recomputation (server.py:3079-3286), which does not read the cache
bb_recompute(rows) ==
    /\ bb_req.pc = "recompute"
    /\ bb_req' = [bb_req EXCEPT !.pc = "responded", !.todo = <<>>]
    /\ response' =
          [op |-> "batch_balance", status |-> 200, from_cache |-> FALSE,
           remote |-> TRUE, at |-> now, keys |-> Elems(bb_req.keys),
           balances |-> rows]
    /\ UNCHANGED <<balance_cache, balance_cache_timestamp>>

\* the P&L rows are in and balances is built: the refresh is about to write
fy_enter(balances, fh) ==
    /\ fy_req.pc \in {"none", "stored"}
    /\ fy_req' = [pc |-> "clear", todo |-> Keyed(balances, fh)]
    /\ UNCHANGED <<balance_cache, balance_cache_timestamp, response>>

\* balance_cache = {}
fy_clear ==
    /\ fy_req.pc = "clear"
    /\ balance_cache' = EmptyDict
    /\ fy_req' = [fy_req EXCEPT !.pc = "stamp"]
    /\ UNCHANGED <<balance_cache_timestamp, response>>

\* balance_cache_timestamp = datetime.now()
fy_stamp ==
    /\ fy_req.pc = "stamp"
    /\ balance_cache_timestamp' = now
    /\ fy_req' = [fy_req EXCEPT !.pc = "store"]
    /\ UNCHANGED <<balance_cache, response>>

\* one pass of "balance_cache[cache_key] = amount" (dict order: any key left)
fy_store(key) ==
    /\ fy_req.pc = "store"
    /\ key \in DOMAIN fy_req.todo
    /\ balance_cache' = Merge(balance_cache, [k \in {key} |-> fy_req.todo[key]])
    /\ LET rest == [k \in (DOMAIN fy_req.todo) \ {key} |-> fy_req.todo[k]]
       IN  fy_req' = [pc |-> IF DOMAIN rest = {} THEN "stored" ELSE "store",
                      todo |-> rest]
    /\ UNCHANGED <<balance_cache_timestamp, response>>

(***************************************************************************)
(* SpecRace: one batch_balance request for Income of January and February  *)
(* and up to MaxRaceRefreshes full-year refreshes of the same filters, one *)
(* after the other, their statements interleaved with the request's.       *)
(***************************************************************************)
MaxRaceRefreshes == 2

RaceAccounts == <<"4010">>
RacePeriods  == <<P0, P1>>
RaceFilters  == filters_hash("", "", "", "")

\* what every refresh computes: Income of 1000 for each month of the year
RaceBalances == [ap \in PLAccounts \X YearPeriods(2025) |-> 1000]

RaceUnchanged ==
    UNCHANGED <<now, walk_in, request_in, bs_queries, pager, fiscalVars, bsVars, hierVars, ctaVars>>

BbEnter ==
    /\ bb_enter(RaceAccounts, RacePeriods, RaceFilters)
    /\ UNCHANGED <<calls, fy_req>> /\ RaceUnchanged

BbCheck == bb_check /\ UNCHANGED <<calls, fy_req>> /\ RaceUnchanged

BbRead == bb_read /\ UNCHANGED <<calls, fy_req>> /\ RaceUnchanged

BbRecompute ==
    /\ bb_recompute([ap \in Elems(RaceAccounts) \X Elems(RacePeriods) |-> 1000])
    /\ UNCHANGED <<calls, fy_req>> /\ RaceUnchanged

FyEnter ==
    /\ calls < MaxRaceRefreshes
    /\ calls' = calls + 1
    /\ fy_enter(RaceBalances, RaceFilters)
    /\ UNCHANGED bb_req /\ RaceUnchanged

FyClear == fy_clear /\ UNCHANGED <<calls, bb_req>> /\ RaceUnchanged

FyStamp == fy_stamp /\ UNCHANGED <<calls, bb_req>> /\ RaceUnchanged

FyStore ==
    \E key \in DOMAIN balance_cache \cup DOMAIN Keyed(RaceBalances, RaceFilters) :
        fy_store(key) /\ UNCHANGED <<calls, bb_req>> /\ RaceUnchanged

InitRace == CacheIdle /\ WalkIdle /\ HierIdle /\ CtaIdle

NextRace ==
    \/ BbEnter
    \/ BbCheck
    \/ BbRead
    \/ BbRecompute
    \/ FyEnter
    \/ FyClear
    \/ FyStamp
    \/ FyStore

SpecRace == InitRace /\ [][NextRace]_vars

(***************************************************************************)
(* Properties of the interleaved requests (SpecRace)                       *)
(***************************************************************************)
\* C21: with the statements of requests interleaved and no locking, a
\* batch_balance response flagged from_cache holds for every requested pair
\* a value that a refresh stored under that key (here 1000), never a 0 that
\* the read defaulted to because a concurrent refresh had replaced the cache
\* or was still filling it between the presence check and the read.
C21_RaceKeepsCacheAnswerRight ==
    (bb_req.pc = "responded" /\ response.from_cache) =>
        /\ bb_req.defaulted = {}
        /\ \A k \in response.keys : response.balances[PairOf(k)] = RaceBalances[PairOf(k)]

\* the race as it runs: the presence check found every key, a refresh then
\* replaced the cache, and the response flagged from_cache holds a defaulted 0
C21_DefaultedZeroServed ==
    /\ bb_req.pc = "responded" /\ response.from_cache
    /\ bb_req.all_in_cache
    /\ bb_req.defaulted # {}
    /\ \E k \in response.keys : response.balances[PairOf(k)] = 0

(***************************************************************************)
(* More properties of the walks (SpecWalk)                                 *)
(***************************************************************************)
\* the months from the earliest requested period through p
MonthsThrough(p) ==
    {q \in DOMAIN walk_in.activity :
        /\ RequestedChrono # <<>>
        /\ ~PeriodBefore(q, RequestedChrono[1])
        /\ ~PeriodBefore(p, q)}

RECURSIVE ActivitySum(_)
ActivitySum(S) ==
    IF S = {} THEN 0
    ELSE LET q == CHOOSE x \in S : TRUE
         IN  walk_in.activity[q] + ActivitySum(S \ {q})

\* the opening balance plus the activity of every month from the earliest
\* requested period through p, each month once
CumulativeThrough(p) == walk_in.prior + ActivitySum(MonthsThrough(p))

\* C22: every Balance-Sheet value batch_periods_refresh emits and caches for a
\* requested period P is the opening balance plus the activity of every month
\* from the earliest requested period through P, months of the range that
\* were not requested included and each month counted once even when a
\* period name is repeated (to within the walk's rounding, less than a cent
\* a month).
C22_CumulativeThroughPeriod ==
    (response.op = "periods_refresh" /\ response.status = 200) =>
        \A a \in BSAccounts : \A i \in 1..Len(RequestedChrono) :
            LET p == RequestedChrono[i]
                k == cache_key(a, p, filters_hash("", "", "", ""))
            IN  /\ Abs(response.balances[<<a, p>>] - CumulativeThrough(p))
                      < Cent * Cardinality(MonthsThrough(p))
                /\ k \in DOMAIN balance_cache
                /\ balance_cache[k] = response.balances[<<a, p>>]

\* the requests C22 holds for: those that name every month of their range,
\* each once
RangeRequestedOnce ==
    /\ NoPeriodRepeated
    /\ \A p \in Elems(RequestedChrono) : MonthsThrough(p) \subseteq Elems(RequestedChrono)

C22_CumulativeWhenRangeRequestedOnce == RangeRequestedOnce => C22_CumulativeThroughPeriod

\* a request for January and March: the value emitted for March leaves
\* February's activity out
C22_GapMonthLeftOut ==
    /\ response.op = "periods_refresh" /\ response.status = 200
    /\ NoPeriodRepeated
    /\ Elems(RequestedChrono) = {Period(2025, 0), Period(2025, 2)}
    /\ \E a \in BSAccounts :
          Abs(response.balances[<<a, Period(2025, 2)>>] - CumulativeThrough(Period(2025, 2)))
              >= 100 * Cent

\* the Balance-Sheet pairs of the walk's response
WalkedPairs == {ap \in DOMAIN response.balances : ap[1] \in BSAccounts}

\* C23: every cumulative Balance-Sheet balance the prefix-sum walks emit
\* (batch_full_year_refresh and batch_periods_refresh) is exactly 0 or at
\* least 0.01 in absolute value, the cache holds the same value, and the
\* full-year walk carries the value it emitted into the next month.
C23_NoTotalBelowEpsilon ==
    (response.op \in {"periods_refresh", "full_year_refresh"} /\ response.status = 200) =>
        /\ \A ap \in WalkedPairs :
              LET v == response.balances[ap]
                  k == cache_key(ap[1], ap[2], filters_hash("", "", "", ""))
              IN  /\ v = 0 \/ Abs(v) >= Cent
                  /\ k \in DOMAIN balance_cache /\ balance_cache[k] = v
        /\ response.op = "full_year_refresh" =>
              \A a \in BSAccounts : \A i \in 2..Len(month_order) :
                  LET v == response.balances[<<a, Period(2025, month_order[i - 1])>>]
                            + walk_in.activity[Period(2025, month_order[i])]
                  IN  response.balances[<<a, Period(2025, month_order[i])>>] =
                          IF Abs(v) < Cent THEN 0 ELSE v

\* C23 witness: a full-year walk from an opening balance of 0 over months of
\* 0.004 each: every running total is below 0.01 and March is emitted as 0,
\* though the three months add up to 0.012
C23_SmallTotalsSnapped ==
    /\ response.op = "full_year_refresh" /\ response.status = 200
    /\ walk_in.prior = 0
    /\ \A p \in DOMAIN walk_in.activity : walk_in.activity[p] = 4
    /\ \A a \in BSAccounts : response.balances[<<a, Period(2025, 2)>>] = 0

(***************************************************************************)
(* Properties of the hierarchy cache (SpecHier)                            *)
(***************************************************************************)
\* C24: once get_subsidiaries_in_hierarchy(S) has computed a result from a
\* successful remote query, every later call for S returns that list without
\* a remote query, whatever has happened to the remote subsidiary table: an
\* entry of the cache never changes or leaves, a call for a cached target
\* returns the entry of that target and asks the remote system nothing, and
\* a call writes no entry but the one of its own target, the list it
\* computed.
C24_CachedForProcessLifetime ==
    [][/\ \A S \in DOMAIN subsidiary_hierarchy_cache :
              /\ S \in DOMAIN subsidiary_hierarchy_cache'
              /\ subsidiary_hierarchy_cache'[S] = subsidiary_hierarchy_cache[S]
       /\ calls' # calls =>
              LET S == hier_call'.target
              IN  /\ S \in DOMAIN subsidiary_hierarchy_cache =>
                        /\ hier_call'.result = subsidiary_hierarchy_cache[S]
                        /\ ~hier_call'.remote
                  /\ DOMAIN subsidiary_hierarchy_cache' \subseteq
                        DOMAIN subsidiary_hierarchy_cache \cup {S}
                  /\ hier_call'.outcome = "computed" =>
                        /\ S \in DOMAIN subsidiary_hierarchy_cache'
                        /\ subsidiary_hierarchy_cache'[S] = hier_call'.result]_vars

\* C24 witness: a second call for a target is answered from the cache with a
\* list of several subsidiaries after the remote table has lost a row, so
\* that a fresh computation would give another list
C24_CachedAfterTableChanged ==
    /\ hier_call.outcome = "cached" /\ ~hier_call.remote
    /\ Len(hier_call.result) > 1
    /\ hier_call.result = subsidiary_hierarchy_cache[hier_call.target]
    /\ \A rows \in RowOrders(subsidiary_table) :
          HierarchyIds(rows, hier_call.target) # hier_call.result

(***************************************************************************)
(* get_fiscal_year_for_period (server.py:4851-4916).  A string is the      *)
(* sequence of its pieces, ":" being a piece of its own, so that the       *)
(* f-string f"{period_name}:{accountingbook or ''}" is the concatenation   *)
(* it is in the code.  The accounting book None or '' is <<>>.  answer is  *)
(* what query_netsuite returned: rows with the record, an empty list, or   *)
(* an error dict.                                                          *)
(***************************************************************************)
\* cache_key = f"{period_name}:{accountingbook or ''}"
fiscal_cache_key(period_name, accountingbook) == period_name \o <<":">> \o accountingbook

\* fiscal_year_cache[cache_key] = fy_info
fiscal_cache_put(key, fy_info) ==
    Merge(fiscal_year_cache, [k \in {key} |-> fy_info])

get_fiscal_year_for_period(period_name, accountingbook, answer) ==
    LET key == fiscal_cache_key(period_name, accountingbook)
    IN  IF key \in DOMAIN fiscal_year_cache
        THEN /\ fiscal_call' = [period_name |-> period_name,
                                accountingbook |-> accountingbook, outcome |-> "cached",
                                result |-> <<fiscal_year_cache[key]>>, remote |-> FALSE]
             /\ UNCHANGED <<fiscal_year_cache, fiscal_found>>
        ELSE IF answer.kind = "rows"
        THEN /\ fiscal_year_cache' = fiscal_cache_put(key, answer.value)
             /\ fiscal_found' = fiscal_found \cup {<<period_name, accountingbook>>}
             /\ fiscal_call' = [period_name |-> period_name,
                                accountingbook |-> accountingbook, outcome |-> "found",
                                result |-> <<answer.value>>, remote |-> TRUE]
        ELSE /\ fiscal_call' = [period_name |-> period_name,
                                accountingbook |-> accountingbook, outcome |-> "not_found",
                                result |-> <<>>, remote |-> TRUE]
             /\ UNCHANGED <<fiscal_year_cache, fiscal_found>>

(***************************************************************************)
(* SpecFiscal: lookups for period names and accounting books as a request  *)
(* can carry them (any JSON string), the remote calendar holding January   *)
(* and February 2025 in a fiscal year that can be reassigned between calls *)
(***************************************************************************)
MaxFiscalCalls == 3

FiscalPeriodNames ==
    {<<"Jan 2025">>, <<"Feb 2025">>, <<"Jan 2025", ":", "1">>, <<"Q1 2025">>}
FiscalBooks == {<<"1">>, <<"2">>, <<"1", ":", "2">>}
RemotePeriods == {<<"Jan 2025">>, <<"Feb 2025">>}

\* what the remote system can answer for a period name
NoFiscalRecord == [period_id |-> <<>>, fiscal_year_id |-> 0]
FiscalAnswers(period_name) ==
    {[kind |-> k, value |-> NoFiscalRecord] : k \in {"empty", "error"}} \cup
    (IF period_name \in RemotePeriods
     THEN {[kind |-> "rows", value |-> [period_id |-> period_name, fiscal_year_id |-> fy]] :
              fy \in {2025, 2026}}
     ELSE {})

FiscalLookup ==
    \E period_name \in FiscalPeriodNames, accountingbook \in FiscalBooks :
      \E answer \in FiscalAnswers(period_name) :
        /\ get_fiscal_year_for_period(period_name, accountingbook, answer)
        /\ calls < MaxFiscalCalls /\ calls' = calls + 1
        /\ UNCHANGED <<balance_cache, balance_cache_timestamp, now, response,
                       walk_in, request_in, bs_queries, pager, stepVars, bsVars,
                       hierVars, ctaVars>>

InitFiscal == CacheIdle /\ WalkIdle /\ HierIdle /\ CtaIdle

NextFiscal == FiscalLookup

SpecFiscal == InitFiscal /\ [][NextFiscal]_vars

(***************************************************************************)
(* Properties of the fiscal-year cache (SpecFiscal)                        *)
(***************************************************************************)
\* what C25 asks of one call, given the calls before it
FiscalCallAsClaimed ==
    LET p == fiscal_call'.period_name
        b == fiscal_call'.accountingbook
        key == fiscal_cache_key(p, b)
    IN  /\ <<p, b>> \in fiscal_found =>
              /\ fiscal_call'.outcome = "cached" /\ ~fiscal_call'.remote
              /\ fiscal_call'.result = <<fiscal_year_cache[key]>>
              /\ fiscal_year_cache' = fiscal_year_cache
        /\ fiscal_call'.outcome = "cached" => <<p, b>> \in fiscal_found
        /\ fiscal_call'.outcome = "found" =>
              /\ fiscal_year_cache'[key] = fiscal_call'.result[1]
              /\ \A k \in DOMAIN fiscal_year_cache :
                    k \in DOMAIN fiscal_year_cache'
                    /\ fiscal_year_cache'[k] = fiscal_year_cache[k]
        /\ fiscal_call'.outcome = "not_found" => fiscal_year_cache' = fiscal_year_cache

\* C25: get_fiscal_year_for_period caches per (period name, accounting
\* book): once a lookup for a pair has found a fiscal year, every later call
\* for the pair returns that record without a remote query; a call for
\* another period name or accounting book never gets a record from the cache
\* that was found for a different pair; a lookup that finds nothing leaves
\* the cache as it was.
C25_FiscalYearCachedPerKey == [][calls' # calls => FiscalCallAsClaimed]_vars

\* strings without the piece ":"
ColonFree(str) == \A i \in 1..Len(str) : str[i] # ":"

\* C25 for period names and accounting books that hold no colon
C25_CachedPerKeyWithoutColon ==
    [][(/\ calls' # calls
        /\ ColonFree(fiscal_call'.period_name) /\ ColonFree(fiscal_call'.accountingbook)
        /\ \A pb \in fiscal_found : ColonFree(pb[1]) /\ ColonFree(pb[2]))
       => FiscalCallAsClaimed]_vars

\* a call for the period name "Jan 2025:1", which the remote calendar does
\* not have, answered from the cache with the record found for "Jan 2025"
C25_RecordOfAnotherPeriod ==
    /\ fiscal_call.outcome = "cached"
    /\ fiscal_call.period_name = <<"Jan 2025", ":", "1">>
    /\ <<fiscal_call.period_name, fiscal_call.accountingbook>> \notin fiscal_found
    /\ fiscal_call.result[1].period_id = <<"Jan 2025">>

(***************************************************************************)
(* SpecBooks: full-year refreshes and batch_balance requests that name an  *)
(* accounting book.  The handlers read the book with                       *)
(* data.get('accountingbook', DEFAULT_ACCOUNTING_BOOK) and put it into     *)
(* their queries (tal.accountingbook = ...), so the remote system answers  *)
(* with the ledger of that book.                                           *)
(***************************************************************************)
DEFAULT_ACCOUNTING_BOOK == 1

\* the request's 'accountingbook': absent or empty, "1", "2", or no number
BookValues == {"", "1", "2", "x"}

\* int(accountingbook), DEFAULT_ACCOUNTING_BOOK for an empty value or on ValueError
accountingbook_of(raw) ==
    CASE raw = "1" -> 1
      [] raw = "2" -> 2
      [] OTHER -> DEFAULT_ACCOUNTING_BOOK

\* Income per month in each accounting book
BookLedger(accountingbook) == 1000 * accountingbook

FullYearRefreshBook ==
    \E raw \in BookValues :
        /\ batch_full_year_refresh(2025, "", TRUE,
              Rows([a \in PLAccounts |->
                      [m \in Months |-> <<BookLedger(accountingbook_of(raw))>>]]),
              Failed, Failed)
        /\ Handled
        /\ request_in' = [handler |-> "full_year_refresh", accountingbook |-> raw]
        /\ UNCHANGED <<now, walk_in, bs_queries, pager, stepVars, fiscalVars, hierVars, ctaVars>>

BatchBalanceBook ==
    \E raw \in BookValues, periods \in {{P0}, {P0, P1}} :
        /\ batch_balance(PLAccounts, periods, "",
              Rows([ap \in PLAccounts \X periods |-> BookLedger(accountingbook_of(raw))]))
        /\ Handled
        /\ request_in' = [handler |-> "batch_balance", accountingbook |-> raw]
        /\ UNCHANGED <<now, walk_in, bs_queries, pager, stepVars, fiscalVars, bsVars, hierVars, ctaVars>>

InitBooks == CacheIdle /\ WalkIdle /\ HierIdle /\ CtaIdle

NextBooks ==
    \/ FullYearRefreshBook
    \/ BatchBalanceBook
    \/ ClockTick

SpecBooks == InitBooks /\ [][NextBooks]_vars

(***************************************************************************)
(* Properties of the accounting book (SpecBooks)                           *)
(***************************************************************************)
\* C26: a batch_balance request for accounting book B is answered from the
\* balance cache only with values that a bulk refresh computed for book B;
\* values cached under one book are never returned for a request that
\* names another.
C26_CacheAnswerOfSameBook ==
    (response.op = "batch_balance" /\ response.status = 200 /\ response.from_cache) =>
        \A k \in response.keys :
            response.balances[PairOf(k)] = BookLedger(accountingbook_of(request_in.accountingbook))

\* what holds instead: a computed answer is of the request's book
C26_ComputedAnswerOfSameBook ==
    (response.op = "batch_balance" /\ response.status = 200 /\ ~response.from_cache) =>
        \A k \in response.keys :
            response.balances[PairOf(k)] = BookLedger(accountingbook_of(request_in.accountingbook))

\* a request for book 1 answered from the cache with the values of book 2
C26_OtherBookServed ==
    /\ response.op = "batch_balance" /\ response.from_cache
    /\ accountingbook_of(request_in.accountingbook) = 1
    /\ \A k \in response.keys : response.balances[PairOf(k)] = BookLedger(2)

(***************************************************************************)
(* SpecAge: the four bulk refreshes and batch_balance over a clock that    *)
(* runs past the TTL.  The remote ledger moves with the clock: every       *)
(* amount a query returns at time t is AgeLedger(t), so a cached value     *)
(* tells when the refresh that computed it ran.                            *)
(***************************************************************************)
MaxAgeNow == 450       \* the clock of SpecAge stops here

AgeLedger(t) == 1000 + t

\* the clock value at which a value of the ledger was computed
ComputedAt(value) == value - 1000

AgePeriodLists == {<<P0>>, <<P0, P1>>}

FullYearRefreshAge ==
    /\ batch_full_year_refresh(2025, "", TRUE,
          Rows([a \in PLAccounts |-> [m \in Months |-> <<AgeLedger(now)>>]]),
          Failed, Failed)
    /\ Handled
    /\ UNCHANGED <<now, walkKept, hierVars, ctaVars>>

PeriodsRefreshAge ==
    \E periods \in AgePeriodLists :
        /\ batch_periods_refresh(periods, "",
              Rows([ap \in PLAccounts \X Elems(periods) |-> AgeLedger(now)]),
              Rows(EmptyDict), Rows(EmptyDict))
        /\ Handled
        /\ UNCHANGED <<now, walkVars, hierVars, ctaVars>>

FullYearRefreshBsAge ==
    /\ batch_full_year_refresh_bs(2025, "",
          [m \in Months |-> Rows([a \in BSAccounts |-> <<AgeLedger(now)>>])])
    /\ Handled
    /\ UNCHANGED <<now, walkVars, hierVars, ctaVars>>

BsPeriodsAge ==
    \E periods \in AgePeriodLists :
        /\ batch_bs_periods(periods, "",
              Rows([a \in BSAccounts |-> [p \in Elems(periods) |-> <<AgeLedger(now)>>]]))
        /\ Handled
        /\ UNCHANGED <<now, walkVars, hierVars, ctaVars>>

BatchBalanceAge ==
    \E accounts \in {PLAccounts, BSAccounts, Accounts}, periods \in {{P0}, {P1}, {P0, P1}} :
        /\ batch_balance(accounts, periods, "",
              Rows([ap \in accounts \X periods |-> AgeLedger(now)]))
        /\ Handled
        /\ UNCHANGED <<now, walkVars, hierVars, ctaVars>>

AgeTick ==
    \E d \in TickSteps :
        /\ now + d <= MaxAgeNow
        /\ now' = now + d
        /\ UNCHANGED <<balance_cache, balance_cache_timestamp, response, calls>>
        /\ UNCHANGED <<walkVars, hierVars, ctaVars>>

InitAge == CacheIdle /\ WalkIdle /\ HierIdle /\ CtaIdle

NextAge ==
    \/ FullYearRefreshAge
    \/ PeriodsRefreshAge
    \/ FullYearRefreshBsAge
    \/ BsPeriodsAge
    \/ BatchBalanceAge
    \/ AgeTick

SpecAge == InitAge /\ [][NextAge]_vars

(***************************************************************************)
(* Properties of the age of served values (SpecAge)                        *)
(***************************************************************************)
\* the pairs of a from_cache answer whose value was read from the cache
\* (a key the cache does not hold is answered 0)
ServedFromCache ==
    IF response.op = "batch_balance" /\ response.status = 200 /\ response.from_cache
    THEN {ap \in DOMAIN response.balances : response.balances[ap] # 0}
    ELSE {}

\* C27: for every sequence of bulk refreshes and batch_balance requests, no
\* value is returned from the balance cache more than 300 seconds after the
\* refresh that computed that value wrote it.
C27_ServedWithinTtlOfItsRefresh ==
    \A ap \in ServedFromCache :
        response.at - ComputedAt(response.balances[ap]) <= BALANCE_CACHE_TTL

\* what holds instead: the cache-wide timestamp is younger than the TTL
\* whenever the cache answers
C27_StampWithinTtl ==
    ServedFromCache # {} =>
        /\ balance_cache_timestamp # NoneTS
        /\ response.at - balance_cache_timestamp < BALANCE_CACHE_TTL

\* a value served from the cache 450 seconds after its refresh wrote it,
\* under a timestamp that a later refresh of other keys set
C27_OldValueServed ==
    \E ap \in ServedFromCache :
        /\ ComputedAt(response.balances[ap]) = 0
        /\ response.at = 450
        /\ balance_cache_timestamp = 300

(***************************************************************************)
(* SpecFrame: full-year refreshes that succeed or fail, among the refreshes *)
(* that add Balance Sheet balances to the cache (batch_full_year_refresh_bs,*)
(* batch_bs_periods), with the clock running.                              *)
(***************************************************************************)
InitFrame == CacheIdle /\ WalkIdle /\ HierIdle /\ CtaIdle

NextFrame ==
    \/ FullYearRefresh
    \/ FullYearRefreshBs
    \/ BsPeriods
    \/ ClockTick

SpecFrame == InitFrame /\ [][NextFrame]_vars

(***************************************************************************)
(* Properties of a failed full-year refresh (SpecFrame)                    *)
(***************************************************************************)
\* the step is a batch_full_year_refresh request that ends in an error
FullYearRefreshFailing ==
    /\ calls' = calls + 1
    /\ response'.op = "full_year_refresh"
    /\ response'.status # 200

\* C28: if the P&L query of batch_full_year_refresh fails, the request
\* returns an error and balance_cache, balance_cache_timestamp and the BS
\* activity cache are left exactly as they were before the request; the
\* existing cache is discarded only after the P&L rows have been received.
C28_PLFailureLeavesCaches ==
    [][FullYearRefreshFailing =>
          UNCHANGED <<balance_cache, balance_cache_timestamp, bsVars>>]_vars

\* a failed full-year refresh after which both caches still hold what an
\* earlier refresh wrote
C28_FailedWithCachesFilled ==
    /\ response.op = "full_year_refresh" /\ response.status = 500
    /\ balance_cache # EmptyDict /\ balance_cache_timestamp # NoneTS
    /\ bs_activity_cache # EmptyDict /\ bs_account_set # {}

(***************************************************************************)
(* Properties of the waits of the retry executors (SpecEquity)             *)
(***************************************************************************)
\* C29: in query_with_retry and query_with_retry_re every backoff wait is
\* followed by another attempt of the same sub-query: the executor never
\* waits after its final attempt, and it always terminates, returning the
\* result of the last attempt it made.  For a sub-query that has returned,
\* every wait of its log is followed by a call, and the log ends with the
\* call whose outcome is returned.
C29_EveryWaitFollowedByAttempt ==
    \A name \in EquityNames :
        q_pc[name] = "done" =>
            /\ \A i \in WaitsAt(name) : i + 1 \in CallsAt(name)
            /\ q_log[name] # <<>>
            /\ q_log[name][Len(q_log[name])].ev = "call"

\* what holds instead: there are at most max_retries attempts, each wait
\* comes right after an attempt, and the only wait no attempt follows is the
\* one after attempt number max_retries
C29_OnlyLastWaitUnfollowed ==
    \A name \in EquityNames :
        /\ Cardinality(CallsAt(name)) <= max_retries
        /\ \A i \in WaitsAt(name) : i - 1 \in CallsAt(name)
        /\ q_pc[name] = "done" =>
              \A i \in WaitsAt(name) :
                  \/ i + 1 \in CallsAt(name)
                  \/ i = Len(q_log[name]) /\ Cardinality(CallsAt(name)) = max_retries

\* a sub-query that has returned after a 6 s wait that no attempt followed
C29_WaitedAfterFinalAttempt ==
    \E name \in EquityNames :
        /\ q_pc[name] = "done"
        /\ Len(q_log[name]) = 2 * max_retries
        /\ q_log[name][Len(q_log[name])] = WaitEvent(2 * max_retries)
        /\ name \in DOMAIN results

(***************************************************************************)
(* Properties of the hierarchy walk on any table (SpecHier)                *)
(***************************************************************************)
\* how many times the body of "while to_process" runs
RECURSIVE WhilePasses(_, _, _)
WhilePasses(rows, hierarchy_ids, to_process) ==
    IF to_process = <<>> THEN 0
    ELSE LET after == AppendChildren(ChildrenOf(rows, Head(to_process)), hierarchy_ids,
                                     Tail(to_process))
         IN  1 + WhilePasses(rows, after[1], after[2])

\* the passes of the while loop in the last call (none in the root branch)
PassesOfCall ==
    IF HierComputed /\ ~IsRootTarget(hier_call.rows, hier_call.target)
    THEN WhilePasses(hier_call.rows, <<hier_call.target>>, <<hier_call.target>>)
    ELSE 0

NoIdTwice(seq) == \A i, j \in 1..Len(seq) : seq[i] = seq[j] => i = j

\* the target of the last call lies on a cycle of parent links (a row that is
\* its own parent included)
RECURSIVE Ancestors(_)
Ancestors(D) ==
    LET D2 == D \cup {ParentIn(id) : id \in D \cap RowIds}
    IN  IF D2 = D THEN D ELSE Ancestors(D2)

TargetOnCycle ==
    /\ hier_call.target \in RowIds
    /\ hier_call.target \in Ancestors({ParentIn(hier_call.target)})

\* C30: get_subsidiaries_in_hierarchy terminates for every finite subsidiary
\* table, including tables whose parent links form a cycle or in which a
\* row is its own parent, and the list it returns contains no id twice.  The
\* while loop of a call runs once for each id of the list it returns, which
\* are at most the target and the rows of the table.
C30_TerminatesWithoutRepeats ==
    hier_call.outcome # "none" =>
        /\ NoIdTwice(hier_call.result)
        /\ HierComputed =>
              /\ PassesOfCall <= Len(hier_call.rows) + 1
              /\ ~IsRootTarget(hier_call.rows, hier_call.target) =>
                    PassesOfCall = Len(hier_call.result)

\* a list computed for a target that lies on a cycle of three rows
C30_ComputedOnCycle ==
    /\ HierComputed /\ TargetOnCycle
    /\ ParentIn(hier_call.target) # hier_call.target
    /\ Len(hier_call.result) = 3

\* a list computed for a target that is its own parent and has a child
C30_ComputedOnSelfParent ==
    /\ HierComputed
    /\ hier_call.target \in RowIds
    /\ ParentIn(hier_call.target) = hier_call.target
    /\ Len(hier_call.result) >= 2

====
